---- MODULE Spec2Model ----
(***************************************************************************)
(* Model of the experiment/trial state synchronizer and the trial job      *)
(* builder of the optimize controller:                                     *)
(*   internal/validation CheckDefinition   (src/internal/experiment/       *)
(*                                          runner.go, second half)        *)
(*   internal/server     FromCluster, ToClusterTrial, FromClusterTrial     *)
(*   internal/trial      NewJob, addDefaultContainer, patchSelf            *)
(*   generation          ReplicaSelector.Map, replicaParameter.Parameters  *)
(*                                         (src/api/v1alpha1/              *)
(*                                          trial_conversion.go, 2nd half) *)
(*   experiment          parameter names (src/unnamed/part_003)            *)
(*   patch               createKustomizePatches (src/unnamed/part_001)     *)
(*   generation          a pass of Map, Parameters and Patch               *)
(*   synchronization     CheckDefinition and FromCluster under the         *)
(*                       ownership token of a record                       *)
(*   internal/experiment Runner.Run (src/internal/experiment/runner.go)    *)
(*   api/v1alpha1        conversion of a Trial to the v1beta1 hub and back *)
(*   internal/server     StopExperiment                                    *)
(*   api/apps/v1alpha1   Objective.Default                                 *)
(*                                                                         *)
(* Strings the code only compares or uses as map keys are TLA+ strings.    *)
(* Strings the code formats or parses (json.Number bounds, metric value    *)
(* strings, URLs, generated names) are sequences of one-character strings. *)
(* 64-bit integers are pairs <<hi, lo>> standing for hi * 2^31 + lo with   *)
(* 0 <= lo < 2^31, because the integers of TLC are 32 bits wide.             *)
(***************************************************************************)
EXTENDS Integers, Sequences, FiniteSets, TLC

VARIABLES
    cdExp,       \* CheckDefinition: the cluster experiment (names of parameters, metrics)
    cdRemote,    \* CheckDefinition: the API experiment (names of parameters, metrics)
    cdResult,    \* CheckDefinition: "pending" before the call, then the error returned
    fcExp,       \* FromCluster: the cluster experiment passed in
    fcResult,    \* FromCluster: what the call returned (called = FALSE before it)
    trial,       \* the cluster trial record
    taBefore,    \* ToClusterTrial: the trial as it was before the last call
    taArg,       \* ToClusterTrial: the suggestion of the last call (Nil before the first)
    rvResult,    \* FromClusterTrial: Nil before the call, then the trial values returned
    njDefaulted, \* NewJob: Nil before the call, then the job handed to patchSelf
    njJob,       \* NewJob: Nil before the call, then the job returned
    rpValue,     \* replicaParameter: the text of the scalar node of the replica field
    rpResult,    \* replicaParameter.Parameters: Nil before the call, then what it returned
    rsSelector,  \* ReplicaSelector: its Path and CreateIfNotPresent
    rsBefore,    \* ReplicaSelector.Map: the resource tree as it was before the call
    rsNode,      \* ReplicaSelector.Map: the resource tree
    rsResult,    \* ReplicaSelector.Map: Nil before the call, then what it returned
    pnResources, \* parameter names: the container resources of the experiment
    pnNames,     \* parameter names: Nil before the names are generated, then the names in order
    kpPatches,   \* createKustomizePatches: the patch templates of the experiment
    kpResult,    \* createKustomizePatches: Nil before the call, then what it returned
    gnSelector,  \* generation pass: the replica selector
    gnNamer,     \* generation pass: the naming function
    gnNode,      \* generation pass: the resource tree
    gnRuns,      \* generation pass: what each pass so far has yielded
    syRecord,    \* synchronization: the definitions of the cluster experiment record
    syRemote,    \* synchronization: the definitions of the API experiment
    syOwner,     \* synchronization: who holds the ownership token of the record
    syPc,        \* synchronization: where the synchronization step is
    syWriterPc,  \* synchronization: where the other writer of the record is
    syChecked,   \* synchronization: Nil, then the definitions CheckDefinition has passed
    sySent,      \* synchronization: Nil, then the API experiment sent
    syWrites,    \* synchronization: the number of writes of the other writer
    rnApps,      \* Runner: the applications in the order they arrive on appCh
    rnTaken,     \* Runner: the number of applications Run has taken from appCh
    rnPc,        \* Runner.Run: "select", "send" (blocked in r.errCh <- err) or "returned"
    rnErr,       \* Runner.Run: Nil, or the error of the send it is blocked in
    rnCancelled, \* Runner: the context of Run is cancelled
    rnReceiving, \* Runner: a receiver reads the error channel
    rnErrors,    \* Runner: the errors received from the error channel, in order
    rnLog,       \* Runner.Run: what Run has done, in order
    cvIn,        \* conversion: the v1alpha1 trial that is converted
    cvHub,       \* conversion: the v1beta1 trial (the hub) that is converted into
    cvBack,      \* conversion: the v1alpha1 trial that the hub is converted back into
    cvPc,        \* conversion: "start", "hub" after ConvertTo, "back" after ConvertFrom
    seExp,       \* StopExperiment: the experiment
    seBefore,    \* StopExperiment: the experiment as it was before the call
    seErr,       \* StopExperiment: the error passed in, Nil for nil
    seResult,    \* StopExperiment: Nil before the call, then what it returned
    obObjective, \* Objective.Default: the objective
    obBefore,    \* Objective.Default: the objective as it was before the first call
    obFirst,     \* Objective.Default: Nil, then the objective after the first call
    obCalls      \* Objective.Default: the number of calls made

cdVars == <<cdExp, cdRemote, cdResult>>

fcVars == <<fcExp, fcResult>>

taVars == <<trial, taBefore, taArg, rvResult>>

njVars == <<njDefaulted, njJob>>

rpVars == <<rpValue, rpResult>>

\* the variables of package generation
rsVars == <<rsSelector, rsBefore, rsNode, rsResult>>

pnVars == <<pnResources, pnNames>>

kpVars == <<kpPatches, kpResult>>

gnVars == <<gnSelector, gnNamer, gnNode, gnRuns>>

syVars == <<syRecord, syRemote, syOwner, syPc, syWriterPc, syChecked, sySent, syWrites>>

rnVars == <<rnApps, rnTaken, rnPc, rnErr, rnCancelled, rnReceiving, rnErrors, rnLog>>

cvVars == <<cvIn, cvHub, cvBack, cvPc>>

seVars == <<seExp, seBefore, seErr, seResult>>

obVars == <<obObjective, obBefore, obFirst, obCalls>>

lateVars == <<gnVars, syVars, rnVars, cvVars, seVars, obVars>>

\* what the actions of one of the further groups leave alone
gnOthers == <<cdVars, fcVars, taVars, njVars, rpVars, rsVars, pnVars, kpVars, syVars, rnVars, cvVars, seVars, obVars>>
syOthers == <<cdVars, fcVars, taVars, njVars, rpVars, rsVars, pnVars, kpVars, gnVars, rnVars, cvVars, seVars, obVars>>
rnOthers == <<cdVars, fcVars, taVars, njVars, rpVars, rsVars, pnVars, kpVars, gnVars, syVars, cvVars, seVars, obVars>>
cvOthers == <<cdVars, fcVars, taVars, njVars, rpVars, rsVars, pnVars, kpVars, gnVars, syVars, rnVars, seVars, obVars>>
seOthers == <<cdVars, fcVars, taVars, njVars, rpVars, rsVars, pnVars, kpVars, gnVars, syVars, rnVars, cvVars, obVars>>
obOthers == <<cdVars, fcVars, taVars, njVars, rpVars, rsVars, pnVars, kpVars, gnVars, syVars, rnVars, cvVars, seVars>>

genVars == <<rpVars, rsVars, pnVars, kpVars, lateVars>>

vars == <<cdExp, cdRemote, cdResult, fcExp, fcResult, trial, taBefore, taArg, rvResult,
          njDefaulted, njJob, genVars>>

(***************************************************************************)
(* Generic helpers                                                         *)
(***************************************************************************)

\* Go's nil error
NoError == "nil"

\* all sequences over S of length at most n
SeqUpTo(S, n) == UNION {[1..k -> S] : k \in 0..n}

\* the elements of a sequence, as a set
Range(s) == {s[i] : i \in DOMAIN s}

\* math.MaxInt32 and math.MinInt32
MaxInt32 == 2147483647
MinInt32 == -2147483647 - 1

\* a text (a Go string that is formatted or parsed) from a sequence of characters
Digit == <<"0", "1", "2", "3", "4", "5", "6", "7", "8", "9">>

DigitValue(c) == CHOOSE d \in 0..9 : Digit[d + 1] = c

IsDigit(c) == \E d \in 0..9 : Digit[d + 1] = c

RECURSIVE FormatNat(_)
FormatNat(n) ==
    IF n < 10 THEN <<Digit[n + 1]>>
    ELSE FormatNat(n \div 10) \o <<Digit[(n % 10) + 1]>>

\* strconv.FormatInt(i, 10) for an int32 above math.MinInt32
FormatInt(i) == IF i < 0 THEN <<"-">> \o FormatNat(-i) ELSE FormatNat(i)

RECURSIVE DigitsValue(_)
DigitsValue(cs) ==
    IF cs = <<>> THEN 0
    ELSE 10 * DigitsValue(SubSeq(cs, 1, Len(cs) - 1)) + DigitValue(cs[Len(cs)])

AllDigits(cs) == cs # <<>> /\ \A i \in DOMAIN cs : IsDigit(cs[i])

\* strconv.ParseInt(s, 10, 64) on short texts: an optional sign, then digits
ParseIntOk(cs) ==
    IF cs # <<>> /\ cs[1] \in {"+", "-"} THEN AllDigits(Tail(cs)) ELSE AllDigits(cs)

ParseIntValue(cs) ==
    IF cs[1] = "-" THEN -DigitsValue(Tail(cs))
    ELSE IF cs[1] = "+" THEN DigitsValue(Tail(cs))
    ELSE DigitsValue(cs)

(***************************************************************************)
(* The records at rest                                                     *)
(***************************************************************************)

\* A pointer is a sequence of length at most one: <<>> is nil.
Nil == <<>>

\* CheckDefinition not in use: empty definitions, no call made
IdleDefinition ==
    /\ cdExp = [Parameters |-> <<>>, Metrics |-> <<>>]
    /\ cdRemote = [Parameters |-> <<>>, Metrics |-> <<>>]
    /\ cdResult = "pending"

NotCalled == [called |-> FALSE, err |-> Nil, name |-> "", out |-> Nil, baseline |-> Nil]

\* FromCluster not in use
IdleExperiment ==
    /\ fcExp = [Name |-> "exp", Labels |-> <<>>, Optimization |-> <<>>,
                Parameters |-> <<>>, Constraints |-> <<>>, Metrics |-> <<>>]
    /\ fcResult = NotCalled

\* A trial as ToClusterTrial is handed it: no name yet, a generate name, an
\* annotation map that is not nil (ToClusterTrial writes into it), nothing else.
BaseTrial ==
    [ Name |-> <<>>,
      GenerateName |-> <<"t", "-">>,
      Namespace |-> "default",
      Annotations |-> <<>>,
      Labels |-> Nil,
      Finalizers |-> <<>>,
      Assignments |-> <<>>,
      Values |-> <<>>,
      JobTemplate |-> Nil,
      ApproximateRuntime |-> Nil,
      StartTimeOffset |-> Nil,
      Conditions |-> <<>>,
      StartTime |-> Nil,
      CompletionTime |-> Nil,
      PatchOperations |-> <<>> ]

\* no trial in use
IdleTrial ==
    /\ trial = BaseTrial
    /\ taBefore = BaseTrial
    /\ taArg = Nil
    /\ rvResult = Nil
    /\ njDefaulted = Nil
    /\ njJob = Nil

\* replicaParameter not in use
IdleReplicas ==
    /\ rpValue = <<>>
    /\ rpResult = Nil

\* the nodes of a resource tree: a scalar with its text, a mapping with its
\* fields in order
ScalarNode(text) == [Kind |-> "Scalar", Value |-> text, Fields |-> <<>>]

MappingNode(fields) == [Kind |-> "Mapping", Value |-> <<>>, Fields |-> fields]

\* ReplicaSelector not in use
IdleSelector ==
    /\ rsSelector = [Path |-> <<>>, CreateIfNotPresent |-> FALSE]
    /\ rsBefore = MappingNode(<<>>)
    /\ rsNode = MappingNode(<<>>)
    /\ rsResult = Nil

\* the parameter namer not in use
IdleNames ==
    /\ pnResources = <<>>
    /\ pnNames = Nil

\* createKustomizePatches not in use
IdlePatches ==
    /\ kpPatches = <<>>
    /\ kpResult = Nil

\* no generation pass made
IdlePass ==
    /\ gnSelector = [Path |-> <<>>, CreateIfNotPresent |-> FALSE]
    /\ gnNamer = "bare"
    /\ gnNode = MappingNode(<<>>)
    /\ gnRuns = <<>>

\* no synchronization step under way
IdleSync ==
    /\ syRecord = [Parameters |-> <<>>, Metrics |-> <<>>]
    /\ syRemote = [Parameters |-> <<>>, Metrics |-> <<>>]
    /\ syOwner = "none"
    /\ syPc = "idle"
    /\ syWriterPc = "idle"
    /\ syChecked = <<>>
    /\ sySent = <<>>
    /\ syWrites = 0

\* no Runner started
IdleRunner ==
    /\ rnApps = <<>>
    /\ rnTaken = 0
    /\ rnPc = "select"
    /\ rnErr = <<>>
    /\ rnCancelled = FALSE
    /\ rnReceiving = TRUE
    /\ rnErrors = <<>>
    /\ rnLog = <<>>

\* no trial converted
IdleConversion ==
    /\ cvIn = <<>>
    /\ cvHub = <<>>
    /\ cvBack = <<>>
    /\ cvPc = "start"

\* StopExperiment not called
IdleStop ==
    /\ seExp = <<>>
    /\ seBefore = <<>>
    /\ seErr = <<>>
    /\ seResult = <<>>

\* Objective.Default not called
IdleObjective ==
    /\ obObjective = <<>>
    /\ obBefore = <<>>
    /\ obFirst = <<>>
    /\ obCalls = 0

\* the further groups not in use
IdleLate == IdlePass /\ IdleSync /\ IdleRunner /\ IdleConversion /\ IdleStop /\ IdleObjective

\* package generation, the patch command and the further groups not in use
IdleGeneration == IdleReplicas /\ IdleSelector /\ IdleNames /\ IdlePatches /\ IdleLate

(***************************************************************************)
(* CheckDefinition                                                         *)
(***************************************************************************)

\* longest list of parameter or metric names of an experiment definition
MaxNames == 2

\* the names parameters and metrics are drawn from
DefNames == {"a", "b"}

ErrParameters == "server and cluster have incompatible parameter definitions"
ErrMetrics == "server and cluster have incompatible metric definitions"

\* The map built from the cluster names (every key mapped to true) after the
\* names of the API definition have been deleted from it.
RemainingNames(local, remote) == Range(local) \ Range(remote)

\* One half of CheckDefinition: equal lengths, then no cluster name is left
\* once the API names are deleted.
CheckNames(local, remote, err) ==
    IF Len(local) = Len(remote)
    THEN IF Cardinality(RemainingNames(local, remote)) > 0 THEN err ELSE NoError
    ELSE err

CheckDefinition(exp, ee) ==
    LET p == CheckNames(exp.Parameters, ee.Parameters, ErrParameters)
    IN  IF p # NoError THEN p
        ELSE CheckNames(exp.Metrics, ee.Metrics, ErrMetrics)

Definitions == [Parameters : SeqUpTo(DefNames, MaxNames), Metrics : SeqUpTo(DefNames, MaxNames)]

DoCheckDefinition ==
    /\ cdResult = "pending"
    /\ cdResult' = CheckDefinition(cdExp, cdRemote)
    /\ UNCHANGED <<cdExp, cdRemote, fcVars, taVars, njVars, genVars>>


(***************************************************************************)
(* FromCluster                                                             *)
(***************************************************************************)

\* longest parameter list of a cluster experiment
MaxParameters == 2

\* intstr.IntOrString
IntValue(i) == [Type |-> "Int", IntVal |-> i, StrVal |-> ""]
StringValue(x) == [Type |-> "String", IntVal |-> 0, StrVal |-> x]

\* An int32 widened to int64: the pair <<hi, lo>> is hi * 2^31 + lo.
Int64FromInt32(i) == IF i >= 0 THEN <<0, i>> ELSE <<-1, (i + MaxInt32) + 1>>

\* numstr.FromString, numstr.FromInt64
NumstrFromString(x) == [IsString |-> TRUE, StrVal |-> x, NumVal |-> <<0, 0>>]
NumstrFromInt64(v) == [IsString |-> FALSE, StrVal |-> "", NumVal |-> v]

stringSliceContains(a, x) == \E i \in DOMAIN a : a[i] = x

\* (a slip: the special case forgets the enumerated values)
IsOmittedParameter_NoValues(p) == p.Min = p.Max

\* (a slip: the count check is dropped)
BaselineCountMismatch_Never(nAssignments, nParameters) == FALSE

\* The special case that omits a parameter client side.
IsOmittedParameter(p) == p.Min = p.Max /\ Len(p.Values) = 0

\* The API parameter appended for a cluster parameter that is not omitted.
RemoteParameter(p) ==
    IF Len(p.Values) > 0
    THEN [Type |-> "categorical", Name |-> p.Name, Values |-> p.Values, Bounds |-> Nil]
    ELSE [Type |-> "int", Name |-> p.Name, Values |-> <<>>,
          Bounds |-> <<[Min |-> FormatInt(p.Min), Max |-> FormatInt(p.Max)]>>]

ErrBaselineRange(name) == <<"baseline out of range for parameter", name>>
ErrBaselinePartial == <<"baseline must be specified on all or none of the parameters">>

\* The baseline value of a parameter that has one is refused when it is a
\* string outside Values or a number outside [Min, Max].
BaselineOutOfRange(p) ==
    LET b == p.Baseline[1]
    IN  IF b.Type = "String" THEN ~stringSliceContains(p.Values, b.StrVal)
        ELSE b.IntVal < p.Min \/ b.IntVal > p.Max

BaselineAssignment(p) ==
    LET b == p.Baseline[1]
    IN  [ParameterName |-> p.Name,
         Value |-> IF b.Type = "String" THEN NumstrFromString(b.StrVal)
                   ELSE NumstrFromInt64(Int64FromInt32(b.IntVal))]

\* One round of the loop over in.Spec.Parameters; acc holds out.Parameters,
\* baseline.Assignments and the error of an early return.
ConvertParameter(p, acc) ==
    IF IsOmittedParameter(p) THEN acc
    ELSE LET params == Append(acc.Parameters, RemoteParameter(p))
         IN  IF p.Baseline = Nil THEN [acc EXCEPT !.Parameters = params]
             ELSE IF BaselineOutOfRange(p)
                  THEN [acc EXCEPT !.Parameters = params, !.err = ErrBaselineRange(p.Name)]
                  ELSE [acc EXCEPT !.Parameters = params,
                                   !.Assignments = Append(@, BaselineAssignment(p))]

RECURSIVE ConvertParameters(_, _)
ConvertParameters(ps, acc) ==
    IF ps = <<>> \/ acc.err # Nil THEN acc
    ELSE ConvertParameters(Tail(ps), ConvertParameter(Head(ps), acc))

\* A label key is <<prefix, rest>>; strings.TrimPrefix(k, "redskyops.dev/").
TrimLabelPrefix(k) == IF k[1] = "redskyops.dev/" THEN <<"", k[2]>> ELSE k

\* out.Labels: the loop ranges over a map, so when two keys trim to the same
\* key either value may be the one that is left. nil when there are no labels.
FromClusterLabels(labels) ==
    IF DOMAIN labels = {} THEN {Nil}
    ELSE LET keys == {TrimLabelPrefix(k) : k \in DOMAIN labels}
         IN  {<<m>> : m \in {f \in [keys -> {labels[k] : k \in DOMAIN labels}] :
                \A t \in keys : \E k \in DOMAIN labels :
                    TrimLabelPrefix(k) = t /\ labels[k] = f[t]}}

FromClusterOptimization(os) == [i \in DOMAIN os |-> [Name |-> os[i].Name, Value |-> os[i].Value]]

\* Quantities are held as their MilliValue; the API value is MilliValue / 1000.
RECURSIVE SumParameters(_)
SumParameters(ps) ==
    IF ps = <<>> THEN <<>>
    ELSE IF Head(ps).Weight = 0 THEN SumParameters(Tail(ps))
         ELSE <<[Name |-> Head(ps).Name, WeightMilli |-> Head(ps).Weight]>> \o SumParameters(Tail(ps))

RECURSIVE FromClusterConstraints(_)
FromClusterConstraints(cs) ==
    IF cs = <<>> THEN <<>>
    ELSE LET c == Head(cs)
             rest == FromClusterConstraints(Tail(cs))
         IN  IF c.Order # Nil
             THEN <<[Name |-> c.Name, ConstraintType |-> "order",
                     OrderConstraint |-> c.Order, SumConstraint |-> Nil]>> \o rest
             ELSE IF c.Sum # Nil
             THEN <<[Name |-> c.Name, ConstraintType |-> "sum", OrderConstraint |-> Nil,
                     SumConstraint |-> <<[IsUpperBound |-> c.Sum[1].IsUpperBound,
                                          BoundMilli |-> c.Sum[1].Bound,
                                          Parameters |-> SumParameters(c.Sum[1].Parameters)]>>]>> \o rest
             ELSE rest

FromClusterMetrics(ms) ==
    [i \in DOMAIN ms |-> [Name |-> ms[i].Name, Minimize |-> ms[i].Minimize, Optimize |-> ms[i].Optimize]]

\* The check on the number of baseline assignments: some, but not one for
\* every parameter that is sent.
BaselineCountMismatch(nAssignments, nParameters) ==
    nAssignments # 0 /\ nAssignments # nParameters

\* What FromCluster returns when it fails: nil, nil, nil, err
FromClusterError(e) == [called |-> TRUE, err |-> e, name |-> "", out |-> Nil, baseline |-> Nil]

\* FromCluster with the labels read in the order that leaves outLabels.
FromCluster(in, outLabels) ==
    LET acc == ConvertParameters(in.Parameters, [Parameters |-> <<>>, Assignments |-> <<>>, err |-> Nil])
        out == [Labels |-> outLabels,
                Optimization |-> FromClusterOptimization(in.Optimization),
                Parameters |-> acc.Parameters,
                Constraints |-> FromClusterConstraints(in.Constraints),
                Metrics |-> FromClusterMetrics(in.Metrics)]
    IN  IF acc.err # Nil THEN FromClusterError(acc.err)
        ELSE IF Len(acc.Assignments) = 0
        THEN [called |-> TRUE, err |-> Nil, name |-> in.Name, out |-> <<out>>, baseline |-> Nil]
        ELSE IF BaselineCountMismatch(Len(acc.Assignments), Len(acc.Parameters))
        THEN FromClusterError(ErrBaselinePartial)
        ELSE [called |-> TRUE, err |-> Nil, name |-> in.Name, out |-> <<out>>,
              baseline |-> <<[Labels |-> [k \in {"baseline"} |-> "true"],
                              Assignments |-> acc.Assignments]>>]

\* the names, bounds, values and baselines the parameters are drawn from
ParameterNames == {"a", "b"}

ParameterShapes ==
    { [Min |-> 1, Max |-> 1, Values |-> <<>>],
      [Min |-> 1, Max |-> 3, Values |-> <<>>],
      [Min |-> -2, Max |-> 12, Values |-> <<>>],
      [Min |-> 0, Max |-> 0, Values |-> <<"x", "y">>] }

ParameterBaselines ==
    {Nil, <<IntValue(0)>>, <<IntValue(2)>>, <<StringValue("x")>>, <<StringValue("z")>>}

Parameters ==
    { [Name |-> n, Min |-> s.Min, Max |-> s.Max, Values |-> s.Values, Baseline |-> b] :
        n \in ParameterNames, s \in ParameterShapes, b \in ParameterBaselines }

\* the rest of an experiment: one with nothing declared, one with labels (two
\* of them trimmed to the same key), an optimization, constraints and metrics
ExperimentRests ==
    { [Labels |-> <<>>, Optimization |-> <<>>, Constraints |-> <<>>, Metrics |-> <<>>],
      [Labels |-> (<<"redskyops.dev/", "team">> :> "x") @@ (<<"", "team">> :> "y"),
       Optimization |-> <<[Name |-> "budget", Value |-> "20"]>>,
       Constraints |-> << [Name |-> "c1", Order |-> <<[LowerParameter |-> "a", UpperParameter |-> "b"]>>, Sum |-> Nil],
                          [Name |-> "c2", Order |-> Nil,
                           Sum |-> <<[IsUpperBound |-> TRUE, Bound |-> 1500,
                                      Parameters |-> <<[Name |-> "a", Weight |-> 0], [Name |-> "b", Weight |-> 2500]>>]>>] >>,
       Metrics |-> <<[Name |-> "cost", Minimize |-> TRUE, Optimize |-> Nil]>>] }

Experiments ==
    { [Name |-> "exp", Labels |-> r.Labels, Optimization |-> r.Optimization,
       Parameters |-> ps, Constraints |-> r.Constraints, Metrics |-> r.Metrics] :
        ps \in SeqUpTo(Parameters, MaxParameters), r \in ExperimentRests }

InitExperiment ==
    /\ fcExp \in Experiments
    /\ fcResult = NotCalled
    /\ IdleDefinition
    /\ IdleTrial
    /\ IdleGeneration

DoFromCluster ==
    /\ ~fcResult.called
    /\ \E l \in FromClusterLabels(fcExp.Labels) : fcResult' = FromCluster(fcExp, l)
    /\ UNCHANGED <<fcExp, cdVars, taVars, njVars, genVars>>

NextExperiment == DoFromCluster

SpecExperiment == InitExperiment /\ [][NextExperiment]_vars


(***************************************************************************)
(* ToClusterTrial                                                          *)
(***************************************************************************)

\* longest assignment list of a suggestion
MaxSuggested == 2

\* longest assignment list a trial is let grow to
MaxTrialAssignments == 3

Finalizer == "serverFinalizer.redskyops.dev"
AnnotationReportTrialURL == "redskyops.dev/report-trial-url"

\* 64-bit comparison of pairs <<hi, lo>>
Less64(x, y) == x[1] < y[1] \/ (x[1] = y[1] /\ x[2] < y[2])

\* the conversion int32(v) of a 64-bit integer: its low 32 bits
TruncInt32(v) == IF v[1] % 2 = 0 THEN v[2] ELSE (v[2] - MaxInt32) - 1

\* intstr.FromInt(int(val))
IntstrFromInt(v) == IntValue(TruncInt32(v))

\* (a slip: the upper bound is not clamped)
AssignmentNumber_NoUpperClamp(val) ==
    IF Less64(val, Int64FromInt32(MinInt32)) THEN IntstrFromInt(Int64FromInt32(MinInt32))
    ELSE IntstrFromInt(val)

\* The switch on val: above math.MaxInt32, below math.MinInt32, default.
AssignmentNumber(val) ==
    IF Less64(Int64FromInt32(MaxInt32), val) THEN IntstrFromInt(Int64FromInt32(MaxInt32))
    ELSE IF Less64(val, Int64FromInt32(MinInt32)) THEN IntstrFromInt(Int64FromInt32(MinInt32))
    ELSE IntstrFromInt(val)

\* The cluster assignment appended for the API assignment a.
ClusterAssignment(a) ==
    [Name |-> a.ParameterName,
     Value |-> IF a.Value.IsString THEN StringValue(a.Value.StrVal)
               ELSE AssignmentNumber(a.Value.NumVal)]

AppendAssignments(assignments, suggested) ==
    assignments \o [i \in DOMAIN suggested |-> ClusterAssignment(suggested[i])]

RECURSIVE StripTrailingSlashes(_)
StripTrailingSlashes(cs) ==
    IF cs # <<>> /\ cs[Len(cs)] = "/" THEN StripTrailingSlashes(SubSeq(cs, 1, Len(cs) - 1))
    ELSE cs

RECURSIVE AfterLastSlash(_)
AfterLastSlash(cs) ==
    IF cs = <<>> \/ cs[Len(cs)] = "/" THEN <<>>
    ELSE Append(AfterLastSlash(SubSeq(cs, 1, Len(cs) - 1)), cs[Len(cs)])

\* path.Base
PathBase(cs) ==
    IF cs = <<>> THEN <<".">>
    ELSE LET b == AfterLastSlash(StripTrailingSlashes(cs))
         IN  IF b = <<>> THEN <<"/">> ELSE b

RECURSIVE ZeroPad(_, _)
ZeroPad(cs, width) == IF Len(cs) >= width THEN cs ELSE ZeroPad(<<"0">> \o cs, width)

\* fmt.Sprintf("%03d", num)
Sprintf03d(num) ==
    IF num < 0 THEN <<"-">> \o ZeroPad(FormatNat(-num), 2) ELSE ZeroPad(FormatNat(num), 3)

\* The name given to a trial that has none: the generate name followed by the
\* last element of the suggestion's URL, as a three digit number if it is one.
TrialName(t, selfURL) ==
    IF t.Name = <<>> /\ t.GenerateName # <<>> /\ selfURL # <<>>
    THEN LET name == PathBase(selfURL)
         IN  IF ParseIntOk(name) THEN t.GenerateName \o Sprintf03d(ParseIntValue(name))
             ELSE t.GenerateName \o name
    ELSE t.Name

\* (a slip: an empty label value is stored instead of deleting the label)
MergeLabels_NoDelete(labels, suggested) ==
    IF DOMAIN suggested = {} THEN labels
    ELSE LET old == IF labels = Nil THEN <<>> ELSE labels[1]
         IN  <<[k \in DOMAIN old \cup DOMAIN suggested |->
                    IF k \in DOMAIN suggested THEN suggested[k] ELSE old[k]]>>

\* The labels of the trial after the loop over suggestion.Labels: a map is
\* made when the trial has none, a label with a value is set, one with an empty
\* value is deleted.
MergeLabels(labels, suggested) ==
    IF DOMAIN suggested = {} THEN labels
    ELSE LET old == IF labels = Nil THEN <<>> ELSE labels[1]
             keys == (DOMAIN old \ {k \in DOMAIN suggested : suggested[k] = ""})
                        \cup {k \in DOMAIN suggested : suggested[k] # ""}
         IN  <<[k \in keys |-> IF k \in DOMAIN suggested THEN suggested[k] ELSE old[k]]>>

\* trial.UpdateStatus refreshes the printed summary of the status (phase,
\* assignments, values), which the trial record here does not hold.
UpdateStatus(t) == t

\* controllerutil.AddFinalizer
AddFinalizer(finalizers, f) ==
    IF \E i \in DOMAIN finalizers : finalizers[i] = f THEN finalizers ELSE Append(finalizers, f)

SetAnnotation(annotations, k, v) ==
    [x \in DOMAIN annotations \cup {k} |-> IF x = k THEN v ELSE annotations[x]]

ToClusterTrial(t, suggestion) ==
    LET t1 == [t EXCEPT !.Annotations = SetAnnotation(@, AnnotationReportTrialURL, suggestion.SelfURL),
                        !.Name = TrialName(t, suggestion.SelfURL),
                        !.Assignments = AppendAssignments(@, suggestion.Assignments),
                        !.Labels = MergeLabels(@, suggestion.Labels)]
        t2 == UpdateStatus(t1)
    IN  [t2 EXCEPT !.Finalizers = AddFinalizer(@, Finalizer)]

\* The call ToClusterTrial(trial, suggestion); the trial's assignments are kept
\* within MaxTrialAssignments.
DoToClusterTrial(suggestion) ==
    /\ Len(trial.Assignments) + Len(suggestion.Assignments) <= MaxTrialAssignments
    /\ trial' = ToClusterTrial(trial, suggestion)
    /\ taBefore' = trial
    /\ taArg' = <<suggestion>>
    /\ UNCHANGED <<cdVars, fcVars, rvResult, njVars, genVars>>

\* 5,000,000,000 = 2 * 2^31 + 705,032,704
FiveBillion == <<2, 705032704>>

\* the 64-bit numbers of a suggestion: 5,000,000,000, math.MinInt32 - 1, 7, -3
RemoteNumbers == {FiveBillion, <<-2, MaxInt32>>, <<0, 7>>, <<-1, MaxInt32 - 2>>}

RemoteValues == {NumstrFromInt64(v) : v \in RemoteNumbers} \cup {NumstrFromString("x")}

\* the parameter of the i-th assignment of a suggestion
SuggestedName(i) == <<"a", "b", "c", "d">>[i]

SuggestedAssignments ==
    { [i \in DOMAIN vs |-> [ParameterName |-> SuggestedName(i), Value |-> vs[i]]] :
        vs \in SeqUpTo(RemoteValues, MaxSuggested) }

SelfURLs == { <<>>, <<"/", "t", "/", "7">>, <<"/", "t", "/", "x">> }

\* suggestions that differ in their assignments, and in their URL
AssignmentSuggestions ==
    { [SelfURL |-> <<"/", "t", "/", "7">>, Assignments |-> as, Labels |-> <<>>] :
        as \in SuggestedAssignments }
    \cup { [SelfURL |-> u, Assignments |-> <<>>, Labels |-> <<>>] : u \in SelfURLs }

\* trials that hold no assignment yet, or one from an earlier suggestion
AssignmentTrials ==
    { [BaseTrial EXCEPT !.Assignments = as] :
        as \in {<<>>, <<[Name |-> "a", Value |-> IntValue(1)]>>} }

InitAssign ==
    /\ njDefaulted = Nil
    /\ njJob = Nil
    /\ rvResult = Nil
    /\ trial \in AssignmentTrials
    /\ taBefore = trial
    /\ taArg = Nil
    /\ IdleDefinition
    /\ IdleExperiment
    /\ IdleGeneration

ApplyAssignment == \E s \in AssignmentSuggestions : DoToClusterTrial(s)

NextAssign == ApplyAssignment

SpecAssign == InitAssign /\ [][NextAssign]_vars

\* label keys and the label maps a suggestion carries: a value, or the empty
\* value that asks for the label to be deleted
LabelKeys == {"k1", "k2", "k3"}

LabelMaps(values) == UNION {[ks -> values] : ks \in SUBSET LabelKeys}

LabelSuggestions ==
    { [SelfURL |-> <<>>, Assignments |-> <<>>, Labels |-> m] : m \in LabelMaps({"", "w"}) }

\* trials without a label map, with an empty one, with one or two labels
LabelTrials ==
    { [BaseTrial EXCEPT !.Labels = l] :
        l \in { Nil, <<<<>>>>, <<[k \in {"k1"} |-> "v"]>>, <<[k \in {"k1", "k2"} |-> "v"]>> } }

InitLabels ==
    /\ njDefaulted = Nil
    /\ njJob = Nil
    /\ rvResult = Nil
    /\ trial \in LabelTrials
    /\ taBefore = trial
    /\ taArg = Nil
    /\ IdleDefinition
    /\ IdleExperiment
    /\ IdleGeneration

ApplyLabels == \E s \in LabelSuggestions : DoToClusterTrial(s)

NextLabels == ApplyLabels

SpecLabels == InitLabels /\ [][NextLabels]_vars

(***************************************************************************)
(* ToClusterTrial: claims                                                  *)
(***************************************************************************)

\* the assignments of the last suggestion, and where the trial holds them
Suggested == taArg[1].Assignments
StoredAt(i) == trial.Assignments[(Len(trial.Assignments) - Len(Suggested)) + i]

\* min(max(v, -2^31), 2^31 - 1) of the 64-bit integer hi * 2^31 + lo
Saturated(v) ==
    IF v[1] > 0 THEN MaxInt32
    ELSE IF v[1] < -1 THEN MinInt32
    ELSE IF v[1] = 0 THEN v[2]
    ELSE (v[2] - MaxInt32) - 1

\* C3: ToClusterTrial has no failure on a numeric assignment: for every 64-bit
\* value v of the suggestion the value written to the trial is
\* min(max(v, -2^31), 2^31 - 1); 5,000,000,000 is stored as 2,147,483,647, a
\* value below -2^31 as -2,147,483,648, a value inside the range unchanged.
C3_NumbersSaturate ==
    taArg # Nil =>
        /\ Len(trial.Assignments) >= Len(Suggested)
        /\ \A i \in DOMAIN Suggested :
              ~Suggested[i].Value.IsString =>
                  /\ StoredAt(i).Name = Suggested[i].ParameterName
                  /\ StoredAt(i).Value = IntValue(Saturated(Suggested[i].Value.NumVal))
                  /\ (Suggested[i].Value.NumVal = FiveBillion => StoredAt(i).Value.IntVal = 2147483647)
                  /\ (Suggested[i].Value.NumVal = <<0, 7>> => StoredAt(i).Value.IntVal = 7)

\* C3 witness: a suggestion of 5,000,000,000 and of -2^31 - 1 was applied and
\* the trial holds 2,147,483,647 and -2,147,483,648 for them.
C3_Witness ==
    /\ taArg # Nil
    /\ Len(Suggested) = 2
    /\ Suggested[1].Value = NumstrFromInt64(FiveBillion)
    /\ Suggested[2].Value = NumstrFromInt64(<<-2, MaxInt32>>)
    /\ StoredAt(1).Value = IntValue(2147483647)
    /\ StoredAt(2).Value = IntValue(-2147483647 - 1)

\* C6: after any sequence of ToClusterTrial calls the assignment list of the
\* trial is a mapping: it holds exactly one entry per parameter name of the
\* suggestion applied and no name twice, whatever it held before the call.
C6_AssignmentsAreMapping ==
    taArg # Nil =>
        /\ \A i, j \in DOMAIN trial.Assignments :
              i # j => trial.Assignments[i].Name # trial.Assignments[j].Name
        /\ {trial.Assignments[i].Name : i \in DOMAIN trial.Assignments}
              = {Suggested[i].ParameterName : i \in DOMAIN Suggested}

\* the labels of a trial as a map (a trial without a label map has none)
LabelsOf(t) == IF t.Labels = Nil THEN <<>> ELSE t.Labels[1]

\* C9: ToClusterTrial merges the labels of the suggestion into those of the
\* trial: after the call every suggested label with a value is on the trial
\* with that value, every suggested label with an empty value is absent, and
\* every label of the trial whose key the suggestion does not name is as it was.
C9_LabelsMerged ==
    taArg # Nil =>
        LET suggested == taArg[1].Labels
            old == LabelsOf(taBefore)
            new == LabelsOf(trial)
        IN  /\ \A k \in DOMAIN suggested :
                  IF suggested[k] # "" THEN k \in DOMAIN new /\ new[k] = suggested[k]
                  ELSE k \notin DOMAIN new
            /\ \A k \in LabelKeys \ DOMAIN suggested :
                  /\ k \in DOMAIN new <=> k \in DOMAIN old
                  /\ k \in DOMAIN old => new[k] = old[k]

\* C9 witness: one call set a label, deleted a label the trial had, and left
\* a third label alone.
C9_Witness ==
    /\ taArg # Nil
    /\ DOMAIN taArg[1].Labels = {"k1", "k3"}
    /\ taArg[1].Labels["k1"] = ""
    /\ taArg[1].Labels["k3"] = "w"
    /\ DOMAIN LabelsOf(taBefore) = {"k1", "k2"}
    /\ DOMAIN LabelsOf(trial) = {"k2", "k3"}
    /\ LabelsOf(trial)["k2"] = "v"

(***************************************************************************)
(* FromClusterTrial                                                        *)
(***************************************************************************)

\* longest condition list and longest value list of a trial
MaxConditions == 2
MaxValues == 2

TrialFailed == "redskyops.dev/trial-failed"
TrialComplete == "redskyops.dev/trial-complete"
ConditionTrue == "True"
ConditionFalse == "False"

\* The digits of a text up to its first character that is no digit.
RECURSIVE LeadingDigits(_)
LeadingDigits(cs) ==
    IF cs = <<>> \/ ~IsDigit(cs[1]) THEN <<>>
    ELSE <<cs[1]>> \o LeadingDigits(Tail(cs))

\* strconv.ParseFloat(s, 64) on decimal texts: an optional sign, digits, an
\* optional point and digits, with a digit on one side of the point at least
\* (texts with an exponent, a hexadecimal mantissa or a special value are not
\* among the texts of the model).
FloatUnsigned(cs) == IF cs # <<>> /\ cs[1] \in {"+", "-"} THEN Tail(cs) ELSE cs
FloatWhole(cs) == LeadingDigits(FloatUnsigned(cs))
FloatRest(cs) == SubSeq(FloatUnsigned(cs), Len(FloatWhole(cs)) + 1, Len(FloatUnsigned(cs)))
FloatFraction(cs) == IF FloatRest(cs) # <<>> /\ FloatRest(cs)[1] = "." THEN Tail(FloatRest(cs)) ELSE <<>>

ParseFloatOk(cs) ==
    /\ FloatRest(cs) = <<>> \/ (FloatRest(cs)[1] = "." /\ LeadingDigits(FloatFraction(cs)) = FloatFraction(cs))
    /\ Len(FloatWhole(cs)) + Len(FloatFraction(cs)) > 0

RECURSIVE PadRight(_, _)
PadRight(cs, width) == IF Len(cs) >= width THEN cs ELSE PadRight(Append(cs, "0"), width)

\* The float read from a text of at most three decimals, in thousandths.
ParseFloatMilli(cs) ==
    LET magnitude == 1000 * DigitsValue(FloatWhole(cs)) + DigitsValue(PadRight(FloatFraction(cs), 3))
    IN  IF cs # <<>> /\ cs[1] = "-" THEN -magnitude ELSE magnitude

\* The outcome of the loop over t.Status.Conditions: every failed condition
\* that is true overwrites the reason and message of the one before.
RECURSIVE ScanConditions(_, _)
ScanConditions(cs, out) ==
    IF cs = <<>> THEN out
    ELSE LET c == Head(cs)
         IN  ScanConditions(Tail(cs),
                IF c.Type = TrialFailed /\ c.Status = ConditionTrue
                THEN [out EXCEPT !.Failed = TRUE, !.FailureReason = c.Reason, !.FailureMessage = c.Message]
                ELSE out)

\* (a slip: a value is dropped when its error does not parse)
KeepValue_NeedsError(v) == ParseFloatOk(v.Value) /\ ParseFloatOk(v.Error)

\* A value of the trial is reported when its text parses as a float.
KeepValue(v) == ParseFloatOk(v.Value)

\* The API value of a trial value that is reported; the error is left zero when
\* its text does not parse.
RemoteValue(v) ==
    [MetricName |-> v.Name,
     ValueMilli |-> ParseFloatMilli(v.Value),
     ErrorMilli |-> IF ParseFloatOk(v.Error) THEN ParseFloatMilli(v.Error) ELSE 0]

RECURSIVE ConvertValues(_)
ConvertValues(vs) ==
    IF vs = <<>> THEN <<>>
    ELSE IF KeepValue(Head(vs)) THEN <<RemoteValue(Head(vs))>> \o ConvertValues(Tail(vs))
    ELSE ConvertValues(Tail(vs))

\* (a slip: the values are recorded whether the trial failed or not)
RecordValues_Always(failed, vs) == ConvertValues(vs)

\* Record the values only if the trial did not fail.
RecordValues(failed, vs) == IF ~failed THEN ConvertValues(vs) ELSE <<>>

FromClusterTrial(t) ==
    LET scanned == ScanConditions(t.Conditions,
                      [StartTime |-> t.StartTime, CompletionTime |-> t.CompletionTime,
                       Failed |-> FALSE, FailureReason |-> "", FailureMessage |-> "",
                       Values |-> <<>>])
    IN  [scanned EXCEPT !.Values = RecordValues(scanned.Failed, t.Values)]

\* the conditions, metric names and texts the trials are drawn from
TrialConditions ==
    { [Type |-> TrialFailed, Status |-> ConditionTrue, Reason |-> "r1", Message |-> "m1"],
      [Type |-> TrialFailed, Status |-> ConditionTrue, Reason |-> "r2", Message |-> "m2"],
      [Type |-> TrialFailed, Status |-> ConditionFalse, Reason |-> "r3", Message |-> "m3"],
      [Type |-> TrialComplete, Status |-> ConditionTrue, Reason |-> "", Message |-> ""] }

ValueName(i) == <<"cost", "time", "mem", "io">>[i]

ValueTexts == { <<"1", ".", "5">>, <<"-", "2">>, <<>>, <<"x">> }

ErrorTexts == { <<>>, <<".", "2", "5">> }

TrialValueLists ==
    { [i \in DOMAIN vs |-> [Name |-> ValueName(i), Value |-> vs[i][1], Error |-> vs[i][2]]] :
        vs \in SeqUpTo(ValueTexts \X ErrorTexts, MaxValues) }

ReportTrials ==
    { [BaseTrial EXCEPT !.Conditions = cs, !.Values = vs,
                        !.StartTime = ts[1], !.CompletionTime = ts[2]] :
        cs \in SeqUpTo(TrialConditions, MaxConditions),
        vs \in TrialValueLists,
        ts \in { <<Nil, Nil>>, <<<<10>>, <<20>>>> } }

InitReport ==
    /\ njDefaulted = Nil
    /\ njJob = Nil
    /\ trial \in ReportTrials
    /\ taBefore = trial
    /\ taArg = Nil
    /\ rvResult = Nil
    /\ IdleDefinition
    /\ IdleExperiment
    /\ IdleGeneration

DoFromClusterTrial ==
    /\ rvResult = Nil
    /\ rvResult' = <<FromClusterTrial(trial)>>
    /\ UNCHANGED <<cdVars, fcVars, trial, taBefore, taArg, njVars, genVars>>

NextReport == DoFromClusterTrial

SpecReport == InitReport /\ [][NextReport]_vars

(***************************************************************************)
(* FromClusterTrial: claims                                                *)
(***************************************************************************)

\* the true failed conditions of the trial
FailedConditions ==
    {i \in DOMAIN trial.Conditions :
        trial.Conditions[i].Type = "redskyops.dev/trial-failed" /\ trial.Conditions[i].Status = "True"}

\* C4: in every result of FromClusterTrial values and failure metadata exclude
\* each other: if the trial has a failed condition that is true, Failed is
\* set, reason and message are those of such a condition and there are no
\* values; otherwise Failed is not set and reason and message are empty.
C4_ValuesOrFailure ==
    rvResult # Nil =>
        LET out == rvResult[1]
        IN  IF FailedConditions # {}
            THEN /\ out.Failed
                 /\ \E i \in FailedConditions :
                       /\ out.FailureReason = trial.Conditions[i].Reason
                       /\ out.FailureMessage = trial.Conditions[i].Message
                 /\ out.Values = <<>>
            ELSE /\ ~out.Failed
                 /\ out.FailureReason = ""
                 /\ out.FailureMessage = ""

\* C4 witness: a failed trial that holds a value whose text is a number was
\* reported with its failure and without values.
C4_Witness ==
    /\ rvResult # Nil
    /\ rvResult[1].Failed
    /\ rvResult[1].FailureReason = "r1"
    /\ rvResult[1].Values = <<>>
    /\ Len(trial.Values) > 0
    /\ trial.Values[1].Value = <<"1", ".", "5">>

\* C5 (as claimed): for every trial that did not fail the reported values
\* have exactly one entry per value of the trial, in the same order and with
\* the same metric name, whatever the value and error texts are.
C5_EveryValueReported ==
    (rvResult # Nil /\ ~rvResult[1].Failed) =>
        /\ Len(rvResult[1].Values) = Len(trial.Values)
        /\ \A i \in DOMAIN trial.Values : rvResult[1].Values[i].MetricName = trial.Values[i].Name

\* the values of the trial whose value text reads as a float, in order
NumericValues == SelectSeq(trial.Values, LAMBDA v : ParseFloatOk(v.Value))

\* C5 (amended): for every trial that did not fail the reported values have
\* exactly one entry per value of the trial whose value text parses as a
\* float, in the same order, with the same metric name and the number read
\* from the text, whatever the error text is; a value whose text does not
\* parse is left out.
C5_NumericValuesReported ==
    (rvResult # Nil /\ ~rvResult[1].Failed) =>
        /\ Len(rvResult[1].Values) = Len(NumericValues)
        /\ \A i \in DOMAIN NumericValues :
              /\ rvResult[1].Values[i].MetricName = NumericValues[i].Name
              /\ rvResult[1].Values[i].ValueMilli = ParseFloatMilli(NumericValues[i].Value)

\* C5 witness: of two values the one whose text is no number was left out and
\* the other, whose error text is empty, was reported as 1.5.
C5_Witness ==
    /\ rvResult # Nil
    /\ ~rvResult[1].Failed
    /\ Len(trial.Values) = 2
    /\ trial.Values[1].Value = <<"x">>
    /\ trial.Values[2].Value = <<"1", ".", "5">>
    /\ trial.Values[2].Error = <<>>
    /\ Len(rvResult[1].Values) = 1
    /\ rvResult[1].Values[1].MetricName = "time"
    /\ rvResult[1].Values[1].ValueMilli = 1500

(***************************************************************************)
(* NewJob                                                                  *)
(***************************************************************************)

\* longest list of recorded patch operations of a trial
MaxPatchOperations == 2

LabelExperiment == "redskyops.dev/experiment"
LabelTrial == "redskyops.dev/trial"
LabelTrialRole == "redskyops.dev/trial-role"
StrategicMergePatchType == "application/strategic-merge-patch+json"
JSONPatchType == "application/json-patch+json"
RestartPolicyNever == "Never"

\* 2 * time.Minute, in milliseconds (durations are held in milliseconds)
DefaultSleepMillis == 120000

\* meta.AddLabel: the label is set, on a label map made if there is none
AddLabel(labels, k, v) == [x \in DOMAIN labels \cup {k} |-> IF x = k THEN v ELSE labels[x]]

\* t.ExperimentNamespacedName().Name: the experiment label of the trial, the
\* name of the trial without one
ExperimentName(t) ==
    IF t.Labels # Nil /\ LabelExperiment \in DOMAIN t.Labels[1] THEN t.Labels[1][LabelExperiment]
    ELSE t.Name

\* setup.AppendAssignmentEnv: one environment variable per assignment of the
\* trial, named after the parameter
AppendAssignmentEnv(t, env) ==
    env \o [i \in DOMAIN t.Assignments |->
                [Name |-> t.Assignments[i].Name, Value |-> t.Assignments[i].Value]]

\* setup.AppendPrometheusEnv adds no assignment variable
AppendPrometheusEnv(t, env) == env

\* The job before defaulting: a copy of the job template, or an empty job with
\* the experiment labels.
JobFromTemplate(t) ==
    IF t.JobTemplate # Nil
    THEN LET jt == t.JobTemplate[1]
         IN  [Namespace |-> "", Name |-> jt.Name, Labels |-> jt.Labels,
              TemplateLabels |-> jt.TemplateLabels, BackoffLimit |-> jt.BackoffLimit,
              RestartPolicy |-> jt.RestartPolicy, Containers |-> jt.Containers]
    ELSE [Namespace |-> "", Name |-> <<>>,
          Labels |-> AddLabel(<<>>, LabelExperiment, ExperimentName(t)),
          TemplateLabels |-> AddLabel(<<>>, LabelExperiment, ExperimentName(t)),
          BackoffLimit |-> Nil, RestartPolicy |-> "", Containers |-> <<>>]

\* fmt.Sprintf("%.0f", seconds) of a duration of ms milliseconds, ms >= 0:
\* the nearest whole number of seconds, the even one of two equally near
SecondsRounded(ms) ==
    LET q == ms \div 1000
        r == ms % 1000
    IN  IF r < 500 THEN q
        ELSE IF r > 500 THEN q + 1
        ELSE IF q % 2 = 0 THEN q ELSE q + 1

\* (a slip: the start time offset is left out of the sleep time)
SleepMillis_NoOffset(t) ==
    IF t.ApproximateRuntime = Nil \/ t.ApproximateRuntime[1] = 0
    THEN DefaultSleepMillis ELSE t.ApproximateRuntime[1]

\* The sleep time of the default container.
SleepMillis(t) ==
    LET s == IF t.ApproximateRuntime = Nil \/ t.ApproximateRuntime[1] = 0
             THEN DefaultSleepMillis ELSE t.ApproximateRuntime[1]
    IN  IF t.StartTimeOffset # Nil THEN s + t.StartTimeOffset[1] ELSE s

\* The busybox container that just runs sleep; its arguments hold the duration
\* that is printed and the number of seconds slept.
DefaultContainer(t) ==
    [Name |-> "default-trial-run", Image |-> "busybox", Command |-> <<"/bin/sh">>,
     Args |-> <<[SleepingFor |-> SleepMillis(t), SleepSeconds |-> SecondsRounded(SleepMillis(t))]>>,
     Env |-> <<>>]

addDefaultContainer(t, job) == [job EXCEPT !.Containers = <<DefaultContainer(t)>>]

\* (a slip: the sleep container replaces the declared containers)
InjectDefaultContainer_Always(t, job) == addDefaultContainer(t, job)

\* Containers cannot be empty, inject a sleep by default.
InjectDefaultContainer(t, job) ==
    IF Len(job.Containers) = 0 THEN addDefaultContainer(t, job) ELSE job

\* A restart policy that is always Never: the policy of the template is lost.
DefaultRestartPolicy_Always(policy) == RestartPolicyNever

\* The restart policy of the job: Never unless the template declares one.
DefaultRestartPolicy(policy) == IF policy = "" THEN RestartPolicyNever ELSE policy

\* A backoff limit that is always zero: the limit of the template is lost.
DefaultBackoffLimit_Always(limit) == <<0>>

\* The backoff limit of the job: a new int32, zero, unless the template
\* declares one.
DefaultBackoffLimit(limit) == IF limit = Nil THEN <<0>> ELSE limit

\* The assignments exposed to the first container only.
ExposeAssignments_FirstOnly(t, containers) ==
    [i \in DOMAIN containers |->
        IF i = 1
        THEN [containers[i] EXCEPT !.Env = AppendPrometheusEnv(t, AppendAssignmentEnv(t, @))]
        ELSE containers[i]]

\* The loop over the containers of the job, run before a placeholder is
\* injected: every container gets the assignment and Prometheus environment
\* appended to its own.
ExposeAssignments(t, containers) ==
    [i \in DOMAIN containers |->
        [containers[i] EXCEPT !.Env = AppendPrometheusEnv(t, AppendAssignmentEnv(t, @))]]

\* The job NewJob hands to patchSelf.
DefaultedJob(t) ==
    LET j0 == JobFromTemplate(t)
        j1 == [j0 EXCEPT !.Labels = AddLabel(AddLabel(@, LabelTrial, t.Name), LabelTrialRole, "trialRun"),
                         !.TemplateLabels = AddLabel(AddLabel(@, LabelTrial, t.Name), LabelTrialRole, "trialRun"),
                         !.Namespace = t.Namespace,
                         !.Name = IF @ = <<>> THEN t.Name ELSE @,
                         !.RestartPolicy = DefaultRestartPolicy(@),
                         !.BackoffLimit = DefaultBackoffLimit(@)]
        j2 == [j1 EXCEPT !.Containers = ExposeAssignments(t, @)]
    IN  InjectDefaultContainer(t, j2)

\* IsTrialJobReference: the reference names the job of the trial
IsTrialJobReference(t, ref) == ref.Kind = "Job" /\ ref.Name = t.Name

\* One container of a strategic merge patch merged into a container list, whose
\* merge key is the name: a delete directive removes the container of that
\* name, other fields overwrite those of the container of that name, and a
\* container of a new name is added in front.
MergeContainer(containers, cp) ==
    IF cp.Delete THEN SelectSeq(containers, LAMBDA c : c.Name # cp.Name)
    ELSE IF \E i \in DOMAIN containers : containers[i].Name = cp.Name
    THEN [i \in DOMAIN containers |->
            IF containers[i].Name = cp.Name THEN [containers[i] EXCEPT !.Image = cp.Image]
            ELSE containers[i]]
    ELSE <<[Name |-> cp.Name, Image |-> cp.Image, Command |-> <<>>, Args |-> <<>>, Env |-> <<>>]>>
            \o containers

RECURSIVE MergeContainers(_, _)
MergeContainers(containers, cps) ==
    IF cps = <<>> THEN containers
    ELSE MergeContainers(MergeContainer(containers, Head(cps)), Tail(cps))

\* strategicpatch.StrategicMergePatch, then json.Unmarshal, of a patch that is
\* well formed and of the right types: null deletes the backoff limit, a number
\* sets it, a restart policy is overwritten, containers are merged by name.
PatchedJob(job, data) ==
    [job EXCEPT !.BackoffLimit = IF data.BackoffLimit.op = "null" THEN Nil
                                 ELSE IF data.BackoffLimit.op = "set" THEN <<data.BackoffLimit.value>>
                                 ELSE @,
                !.RestartPolicy = IF data.RestartPolicy = Nil THEN @ ELSE data.RestartPolicy[1],
                !.Containers = MergeContainers(@, data.Containers)]

\* The patch fails: its data is no JSON document (the merge errors), or it sets
\* the backoff limit to a text (the merged document does not unmarshal).
PatchFails(data) == data.Malformed \/ data.BackoffLimit.op = "text"

\* Every strategic merge patch is tried, whatever it targets.
AppliesToJob_AnyTarget(t, po) == po.PatchType = StrategicMergePatchType

\* A patch operation is tried when it targets the trial job and is a
\* strategic merge patch.
AppliesToJob(t, po) ==
    IsTrialJobReference(t, po.TargetRef) /\ po.PatchType = StrategicMergePatchType

\* patchSelf: the first patch operation that targets the trial job, is a
\* strategic merge patch and applies without error decides the job returned;
\* without one the job is returned as it is.
RECURSIVE patchSelf(_, _, _)
patchSelf(t, pos, job) ==
    IF pos = <<>> THEN job
    ELSE IF AppliesToJob(t, Head(pos)) /\ ~PatchFails(Head(pos).Data)
    THEN PatchedJob(job, Head(pos).Data)
    ELSE patchSelf(t, Tail(pos), job)

NewJob(t) == patchSelf(t, t.PatchOperations, DefaultedJob(t))

\* the trials NewJob is called with
JobTrialName == <<"t", "-", "0", "0", "1">>

TemplateContainer(name) ==
    [Name |-> name, Image |-> "app", Command |-> <<>>, Args |-> <<>>, Env |-> <<>>]

JobTemplates ==
    { Nil,
      <<[Name |-> <<>>, Labels |-> <<>>, TemplateLabels |-> <<>>, BackoffLimit |-> Nil,
         RestartPolicy |-> "", Containers |-> <<>>]>>,
      <<[Name |-> <<"j">>, Labels |-> [k \in {"app"} |-> "x"], TemplateLabels |-> <<>>,
         BackoffLimit |-> <<3>>, RestartPolicy |-> "OnFailure",
         Containers |-> <<TemplateContainer("main")>>]>>,
      <<[Name |-> <<>>, Labels |-> <<>>, TemplateLabels |-> <<>>, BackoffLimit |-> Nil,
         RestartPolicy |-> "", Containers |-> <<TemplateContainer("main"), TemplateContainer("side")>>]>> }

KeepBackoffLimit == [op |-> "keep", value |-> 0]

PatchData ==
    { [Malformed |-> TRUE, BackoffLimit |-> KeepBackoffLimit, RestartPolicy |-> Nil, Containers |-> <<>>],
      [Malformed |-> FALSE, BackoffLimit |-> [op |-> "text", value |-> 0], RestartPolicy |-> Nil,
       Containers |-> <<[Name |-> "extra", Image |-> "img", Delete |-> FALSE]>>],
      [Malformed |-> FALSE, BackoffLimit |-> [op |-> "set", value |-> 2], RestartPolicy |-> Nil,
       Containers |-> <<[Name |-> "extra", Image |-> "img", Delete |-> FALSE]>>],
      [Malformed |-> FALSE, BackoffLimit |-> [op |-> "null", value |-> 0], RestartPolicy |-> <<"">>,
       Containers |-> <<[Name |-> "main", Image |-> "img", Delete |-> FALSE]>>],
      [Malformed |-> FALSE, BackoffLimit |-> KeepBackoffLimit, RestartPolicy |-> <<"OnFailure">>,
       Containers |-> <<[Name |-> "default-trial-run", Image |-> "", Delete |-> TRUE]>>] }

PatchOperations ==
    { [TargetRef |-> [Kind |-> "Job", Name |-> JobTrialName], PatchType |-> StrategicMergePatchType,
       Data |-> d] : d \in PatchData }
    \cup { [TargetRef |-> [Kind |-> k, Name |-> JobTrialName], PatchType |-> ty,
            Data |-> [Malformed |-> FALSE, BackoffLimit |-> [op |-> "set", value |-> 2],
                      RestartPolicy |-> Nil,
                      Containers |-> <<[Name |-> "extra", Image |-> "img", Delete |-> FALSE]>>]] :
            k \in {"Job", "Deployment"}, ty \in {StrategicMergePatchType, JSONPatchType} }

JobTrials ==
    { [BaseTrial EXCEPT !.Name = JobTrialName, !.JobTemplate = jt, !.Assignments = as,
                        !.ApproximateRuntime = rt, !.StartTimeOffset = off,
                        !.PatchOperations = pos] :
        jt \in JobTemplates,
        as \in { <<>>, <<[Name |-> "a", Value |-> IntValue(1)], [Name |-> "b", Value |-> StringValue("x")]>> },
        rt \in { Nil, <<0>>, <<1500>>, <<90000>> },
        off \in { Nil, <<5000>> },
        pos \in SeqUpTo(PatchOperations, MaxPatchOperations) }

InitJob ==
    /\ trial \in JobTrials
    /\ taBefore = trial
    /\ taArg = Nil
    /\ rvResult = Nil
    /\ njDefaulted = Nil
    /\ njJob = Nil
    /\ IdleDefinition
    /\ IdleExperiment
    /\ IdleGeneration

DoNewJob ==
    /\ njJob = Nil
    /\ njDefaulted' = <<DefaultedJob(trial)>>
    /\ njJob' = <<NewJob(trial)>>
    /\ UNCHANGED <<cdVars, fcVars, trial, taBefore, taArg, rvResult, genVars>>

NextJob == DoNewJob

SpecJob == InitJob /\ [][NextJob]_vars

(***************************************************************************)
(* NewJob: claims                                                          *)
(***************************************************************************)

\* the containers the job template of the trial declares
DeclaredContainers == IF trial.JobTemplate = Nil THEN <<>> ELSE trial.JobTemplate[1].Containers

IsPlaceholder(c) == c.Name = "default-trial-run" /\ c.Image = "busybox"

ContainerNames(cs) == [i \in DOMAIN cs |-> cs[i].Name]

\* a recorded strategic merge patch targets the job of the trial
HasSelfPatch ==
    \E i \in DOMAIN trial.PatchOperations :
        /\ trial.PatchOperations[i].TargetRef = [Kind |-> "Job", Name |-> trial.Name]
        /\ trial.PatchOperations[i].PatchType = "application/strategic-merge-patch+json"

\* C10 (as claimed): for every trial whose job template declares no container,
\* or that has no job template, the job NewJob returns has exactly one
\* container, the placeholder sleep container; no placeholder is added when
\* the template declares a container.
C10_ReturnedJobHasPlaceholder ==
    njJob # Nil =>
        IF Len(DeclaredContainers) = 0
        THEN Len(njJob[1].Containers) = 1 /\ IsPlaceholder(njJob[1].Containers[1])
        ELSE \A i \in DOMAIN njJob[1].Containers : ~IsPlaceholder(njJob[1].Containers[i])

\* C10 (amended): for such a trial the job NewJob has built when it turns to
\* the recorded patches has exactly one container, the placeholder sleep
\* container, and with a template that declares containers it has the
\* declared containers and no placeholder; the job returned has these very
\* containers unless a recorded strategic merge patch targets the trial job.
C10_DefaultedJobHasPlaceholder ==
    njJob # Nil =>
        /\ IF Len(DeclaredContainers) = 0
           THEN Len(njDefaulted[1].Containers) = 1 /\ IsPlaceholder(njDefaulted[1].Containers[1])
           ELSE /\ ContainerNames(njDefaulted[1].Containers) = ContainerNames(DeclaredContainers)
                /\ \A i \in DOMAIN njDefaulted[1].Containers : ~IsPlaceholder(njDefaulted[1].Containers[i])
        /\ ~HasSelfPatch => njJob[1].Containers = njDefaulted[1].Containers

\* C10 witness: a trial without containers whose only recorded patch targets
\* another object got the placeholder, and it is in the job returned.
C10_Witness ==
    /\ njJob # Nil
    /\ trial.JobTemplate # Nil
    /\ Len(DeclaredContainers) = 0
    /\ Len(trial.PatchOperations) = 1
    /\ ~HasSelfPatch
    /\ Len(njJob[1].Containers) = 1
    /\ IsPlaceholder(njJob[1].Containers[1])

\* the backoff limit and the restart policy the job template declares
TemplateBackoffLimit == IF trial.JobTemplate = Nil THEN Nil ELSE trial.JobTemplate[1].BackoffLimit

TemplateRestartPolicy == IF trial.JobTemplate = Nil THEN "" ELSE trial.JobTemplate[1].RestartPolicy

\* the job has a backoff limit and a restart policy: those of the template,
\* or zero and Never
HasJobDefaults(job) ==
    /\ job.BackoffLimit # Nil
    /\ job.RestartPolicy # ""
    /\ job.BackoffLimit = IF TemplateBackoffLimit = Nil THEN <<0>> ELSE TemplateBackoffLimit
    /\ job.RestartPolicy = IF TemplateRestartPolicy = "" THEN "Never" ELSE TemplateRestartPolicy

\* C11 (as claimed): every job NewJob returns, for a trial with recorded patch
\* operations too, has a backoff limit and a restart policy: zero and Never
\* when the template declares none, the declared ones otherwise.
C11_ReturnedJobHasDefaults == njJob # Nil => HasJobDefaults(njJob[1])

\* C11 (amended): the job NewJob has built when it turns to the recorded
\* patches has a backoff limit and a restart policy, zero and Never when the
\* template declares none and the declared ones otherwise; the job returned
\* has the same two unless a recorded strategic merge patch targets the
\* trial job.
C11_DefaultedJobHasDefaults ==
    njJob # Nil =>
        /\ HasJobDefaults(njDefaulted[1])
        /\ ~HasSelfPatch => HasJobDefaults(njJob[1])

\* C11 witness: a template that declares a backoff limit and a restart policy,
\* one recorded patch for another object; the job returned keeps both.
C11_Witness ==
    /\ njJob # Nil
    /\ TemplateBackoffLimit = <<3>>
    /\ TemplateRestartPolicy = "OnFailure"
    /\ Len(trial.PatchOperations) = 1
    /\ ~HasSelfPatch
    /\ njJob[1].BackoffLimit = <<3>>
    /\ njJob[1].RestartPolicy = "OnFailure"

\* the container has exactly one environment variable for every assignment of
\* the trial, with the value assigned
CarriesAssignments(c) ==
    \A i \in DOMAIN trial.Assignments :
        /\ Cardinality({ j \in DOMAIN c.Env : c.Env[j].Name = trial.Assignments[i].Name }) = 1
        /\ \E j \in DOMAIN c.Env : c.Env[j] = [Name |-> trial.Assignments[i].Name,
                                              Value |-> trial.Assignments[i].Value]

\* C12 (as claimed): every container of the job NewJob returns, the
\* placeholder included, carries one environment variable for every
\* assignment of the trial.
C12_EveryContainerCarriesAssignments ==
    njJob # Nil => \A i \in DOMAIN njJob[1].Containers : CarriesAssignments(njJob[1].Containers[i])

\* C12 (amended): in the job NewJob has built when it turns to the recorded
\* patches, every container the template declares carries one environment
\* variable for every assignment of the trial, and the placeholder carries
\* none; the job returned has these very containers unless a recorded
\* strategic merge patch targets the trial job.
C12_DeclaredContainersCarryAssignments ==
    njJob # Nil =>
        /\ \A i \in DOMAIN njDefaulted[1].Containers :
              IF IsPlaceholder(njDefaulted[1].Containers[i])
              THEN njDefaulted[1].Containers[i].Env = <<>>
              ELSE /\ CarriesAssignments(njDefaulted[1].Containers[i])
                   /\ Len(njDefaulted[1].Containers[i].Env)
                        = Len(DeclaredContainers[i].Env) + Len(trial.Assignments)
        /\ ~HasSelfPatch =>
              \A i \in DOMAIN njJob[1].Containers :
                  njJob[1].Containers[i].Env = njDefaulted[1].Containers[i].Env

\* C12 witness: two declared containers, two assignments, no patch for the
\* trial job: both containers of the job returned carry both variables.
C12_Witness ==
    /\ njJob # Nil
    /\ Len(DeclaredContainers) = 2
    /\ Len(trial.Assignments) = 2
    /\ ~HasSelfPatch
    /\ Len(njJob[1].Containers) = 2
    /\ \A i \in 1..2 : Len(njJob[1].Containers[i].Env) = 2

\* the recorded patches that target the trial job as strategic merge patches
SelfPatches ==
    { i \in DOMAIN trial.PatchOperations :
        /\ trial.PatchOperations[i].TargetRef = [Kind |-> "Job", Name |-> trial.Name]
        /\ trial.PatchOperations[i].PatchType = "application/strategic-merge-patch+json" }

\* serialization, merge or deserialization of the patch errors
SelfPatchErrs(i) ==
    \/ trial.PatchOperations[i].Data.Malformed
    \/ trial.PatchOperations[i].Data.BackoffLimit.op = "text"

\* C13 (as claimed): a recorded patch is applied only if it targets the trial
\* job and is a strategic merge patch, and if serialization, merge or
\* deserialization of such a patch errors, the job NewJob returns is exactly
\* the defaulted, unpatched job.
C13_ErrorYieldsDefaultedJob ==
    njJob # Nil =>
        /\ SelfPatches = {} => njJob = njDefaulted
        /\ (\E i \in SelfPatches : SelfPatchErrs(i)) => njJob = njDefaulted

\* C13 (amended): a recorded patch is applied only if it targets the trial
\* job and is a strategic merge patch; if every such patch errors, the job
\* NewJob returns is exactly the defaulted, unpatched job, and otherwise it is
\* the defaulted job with the first such patch that does not error merged in.
C13_FirstSoundPatchDecides ==
    njJob # Nil =>
        LET sound == { i \in SelfPatches : ~SelfPatchErrs(i) }
        IN  IF sound = {}
            THEN njJob = njDefaulted
            ELSE LET first == CHOOSE i \in sound : \A j \in sound : i <= j
                 IN  njJob[1] = PatchedJob(njDefaulted[1], trial.PatchOperations[first].Data)

\* C13 witness: the first patch for the trial job is no JSON document, the
\* second sets the backoff limit, and the job returned has it.
C13_Witness ==
    /\ njJob # Nil
    /\ TemplateBackoffLimit = Nil
    /\ SelfPatches = {1, 2}
    /\ trial.PatchOperations[1].Data.Malformed
    /\ trial.PatchOperations[2].Data.BackoffLimit = [op |-> "set", value |-> 2]
    /\ ~trial.PatchOperations[2].Data.Malformed
    /\ njDefaulted[1].BackoffLimit = <<0>>
    /\ njJob[1].BackoffLimit = <<2>>

\* the trial has an approximate runtime that is not zero, and NewJob has
\* substituted the placeholder
PlaceholderWithRuntime ==
    /\ njJob # Nil
    /\ trial.ApproximateRuntime # Nil
    /\ trial.ApproximateRuntime[1] # 0
    /\ Len(DeclaredContainers) = 0

\* the seconds the placeholder of the job handed to patchSelf sleeps
PlaceholderSeconds == njDefaulted[1].Containers[1].Args[1].SleepSeconds

\* C21 (as claimed): the placeholder substituted for a trial with a non-zero
\* approximate runtime sleeps for that runtime (in whole seconds), whatever
\* the start time offset of the trial.
C21_SleepsForRuntime ==
    PlaceholderWithRuntime =>
        PlaceholderSeconds = SecondsRounded(trial.ApproximateRuntime[1])

\* C21 (amended): the placeholder sleeps for the approximate runtime plus the
\* start time offset of the trial, when it has one, rounded to whole seconds.
C21_SleepsForRuntimeAndOffset ==
    PlaceholderWithRuntime =>
        /\ Len(njDefaulted[1].Containers) = 1
        /\ IsPlaceholder(njDefaulted[1].Containers[1])
        /\ PlaceholderSeconds =
              SecondsRounded(trial.ApproximateRuntime[1]
                             + (IF trial.StartTimeOffset = Nil THEN 0 ELSE trial.StartTimeOffset[1]))

\* C21 witness: a runtime of 90 s and an offset of 5 s, a placeholder that
\* sleeps 95 s.
C21_Witness ==
    /\ PlaceholderWithRuntime
    /\ trial.ApproximateRuntime = <<90000>>
    /\ trial.StartTimeOffset = <<5000>>
    /\ PlaceholderSeconds = 95

(***************************************************************************)
(* generation: replicaParameter.Parameters                                 *)
(***************************************************************************)

\* the longest text of a replica field that is drawn from ReplicaChars
MaxValueLen == 2

\* 64-bit addition of pairs <<hi, lo>>
Add64(x, y) ==
    IF x[2] > MaxInt32 - y[2]
    THEN <<x[1] + y[1] + 1, (x[2] - (MaxInt32 - y[2])) - 1>>
    ELSE <<x[1] + y[1], x[2] + y[2]>>

Neg64(x) == IF x[2] = 0 THEN <<-x[1], 0>> ELSE <<-x[1] - 1, (MaxInt32 - x[2]) + 1>>

\* x * 8 and x * 10, by doubling
Times64(x, base) ==
    LET x2 == Add64(x, x)
        x4 == Add64(x2, x2)
        x8 == Add64(x4, x4)
    IN  IF base = 8 THEN x8 ELSE Add64(x8, x2)

\* the digits cs read in the base (8 or 10)
RECURSIVE Digits64(_, _)
Digits64(cs, base) ==
    IF cs = <<>> THEN <<0, 0>>
    ELSE LET front == Digits64(SubSeq(cs, 1, Len(cs) - 1), base)
         IN  Add64(Times64(front, base), <<0, DigitValue(cs[Len(cs)])>>)

\* the text without its sign
Unsigned(text) == IF text # <<>> /\ text[1] = "-" THEN Tail(text) ELSE text

\* Decode(&v) of a plain scalar into an int succeeds: the empty scalar is
\* null and leaves v zero, a text of digits with an optional sign is an
\* integer (or, with a leading zero and a digit above 7, a float with an
\* integral value); every other text is a string.
DecodeOk(text) == text = <<>> \/ AllDigits(Unsigned(text))

\* the digits are read in base 8 after a leading zero
IsOctal(digits) ==
    /\ Len(digits) > 1
    /\ digits[1] = "0"
    /\ \A i \in DOMAIN digits : DigitValue(digits[i]) < 8

\* the int Decode(&v) stores, 64 bits wide
DecodeValue(text) ==
    IF text = <<>> THEN <<0, 0>>
    ELSE LET digits == Unsigned(text)
             magnitude == IF IsOctal(digits) THEN Digits64(digits, 8) ELSE Digits64(digits, 10)
         IN  IF text[1] = "-" THEN Neg64(magnitude) ELSE magnitude

\* (a slip: zero replicas pass)
NoReplicas_Negative(v) == Less64(v, <<0, 0>>)

\* v <= 0
NoReplicas(v) == ~Less64(<<0, 0>>, v)

\* replicaParameter.Parameters on the scalar node of the replica field. The
\* name of the parameter is what the name generator makes of the resource,
\* the field path and "replicas"; it is kept as that last argument.
replicaParameters(value) ==
    IF ~DecodeOk(value) THEN [Parameters |-> Nil, Err |-> <<"decode">>]
    ELSE LET v == DecodeValue(value)
         IN  IF NoReplicas(v) THEN [Parameters |-> Nil, Err |-> Nil]
             ELSE LET baselineReplicas == IntstrFromInt(v)
                      minReplicas == 1
                      maxReplicas == IF baselineReplicas.IntVal > 5 THEN baselineReplicas.IntVal ELSE 5
                  IN  [Parameters |-> <<[Name |-> "replicas", Min |-> minReplicas,
                                         Max |-> maxReplicas, Baseline |-> <<baselineReplicas>>]>>,
                       Err |-> Nil]

\* the texts of the replica field
ReplicaChars == {"-", "0", "1", "5", "6", "9", "a"}

\* 2^31 - 1, 2^31, 2^32 + 3, 2^32 + 6, -2^31 - 1
LargeReplicaTexts ==
    { <<"2", "1", "4", "7", "4", "8", "3", "6", "4", "7">>,
      <<"2", "1", "4", "7", "4", "8", "3", "6", "4", "8">>,
      <<"4", "2", "9", "4", "9", "6", "7", "2", "9", "9">>,
      <<"4", "2", "9", "4", "9", "6", "7", "3", "0", "2">>,
      <<"-", "2", "1", "4", "7", "4", "8", "3", "6", "4", "9">> }

ReplicaTexts == SeqUpTo(ReplicaChars, MaxValueLen) \cup LargeReplicaTexts

InitReplicas ==
    /\ rpValue \in ReplicaTexts
    /\ rpResult = Nil
    /\ IdleSelector
    /\ IdleNames
    /\ IdlePatches
    /\ IdleLate
    /\ IdleDefinition
    /\ IdleExperiment
    /\ IdleTrial

DoParameters ==
    /\ rpResult = Nil
    /\ rpResult' = <<replicaParameters(rpValue)>>
    /\ UNCHANGED <<rpValue, cdVars, fcVars, taVars, njVars, rsVars, pnVars, kpVars, lateVars>>

NextReplicas == DoParameters

SpecReplicas == InitReplicas /\ [][NextReplicas]_vars

\* the replica count decoded is positive
PositiveReplicas == DecodeOk(rpValue) /\ Less64(<<0, 0>>, DecodeValue(rpValue))

\* C14: for every positive replica count v, values beyond the 32-bit signed
\* range included, Parameters returns exactly one parameter with Min = 1,
\* Max = max(5, v) and Baseline = v, so that Min <= Baseline <= Max.
C14_OneParameterAroundBaseline ==
    (rpResult # Nil /\ PositiveReplicas) =>
        LET v == DecodeValue(rpValue)
            ps == rpResult[1].Parameters
        IN  /\ rpResult[1].Err = Nil
            /\ Len(ps) = 1
            /\ ps[1].Min = 1
            /\ Int64FromInt32(ps[1].Max) = IF Less64(<<0, 5>>, v) THEN v ELSE <<0, 5>>
            /\ ps[1].Baseline # Nil
            /\ ps[1].Baseline[1].Type = "Int"
            /\ Int64FromInt32(ps[1].Baseline[1].IntVal) = v
            /\ ps[1].Min <= ps[1].Baseline[1].IntVal
            /\ ps[1].Baseline[1].IntVal <= ps[1].Max

\* C15: for a replica count that is zero or negative Parameters returns no
\* parameter and no error; for a value that does not decode to an int it
\* returns an error and no parameter.
C15_NoParameterWithoutReplicas ==
    rpResult # Nil =>
        /\ (DecodeOk(rpValue) /\ ~PositiveReplicas) =>
              (rpResult[1].Parameters = <<>> /\ rpResult[1].Err = Nil)
        /\ ~DecodeOk(rpValue) =>
              (rpResult[1].Parameters = <<>> /\ rpResult[1].Err # Nil)

\* C15 witness: zero replicas, no parameter, no error
C15_Witness ==
    /\ rpValue = <<"0">>
    /\ rpResult = <<[Parameters |-> <<>>, Err |-> <<>>]>>

(***************************************************************************)
(* generation: ReplicaSelector.Map                                         *)
(***************************************************************************)

\* the most fields a spec has besides the replica field
MaxExtraFields == 1

\* the position of the field of the mapping with the key, 0 without one
FieldIndex(node, key) ==
    IF \E i \in DOMAIN node.Fields : node.Fields[i].Key = key
    THEN CHOOSE i \in DOMAIN node.Fields :
            /\ node.Fields[i].Key = key
            /\ \A j \in 1..(i - 1) : node.Fields[j].Key # key
    ELSE 0

\* yaml.PathGetter{Path: path, Create: yaml.ScalarNode} on a node: it walks
\* the path field by field; a field that is missing is appended to its
\* mapping, as an empty mapping when more of the path follows and as an empty
\* scalar at the end of the path; a scalar on the way is an error. It yields
\* the node as it is afterwards, the node matched and the error.
RECURSIVE PathGetter(_, _)
PathGetter(node, path) ==
    IF path = <<>> THEN [Node |-> node, Match |-> <<node>>, Err |-> Nil]
    ELSE IF node.Kind # "Mapping" THEN [Node |-> node, Match |-> Nil, Err |-> <<"wrong node kind">>]
    ELSE LET i == FieldIndex(node, Head(path))
             created == IF Len(path) = 1 THEN ScalarNode(<<>>) ELSE MappingNode(<<>>)
             fields == IF i = 0 THEN Append(node.Fields, [Key |-> Head(path), Node |-> created])
                       ELSE node.Fields
             at == IF i = 0 THEN Len(fields) ELSE i
             below == PathGetter(fields[at].Node, Tail(path))
         IN  [Node |-> [node EXCEPT !.Fields = [fields EXCEPT ![at].Node = below.Node]],
              Match |-> below.Match,
              Err |-> below.Err]

\* (a slip: an empty field is skipped whatever the creation policy)
SkipField_AnyPolicy(value, create) == value = <<>>

\* the filter of Map returns early: the node has no value and the selector
\* does not create
SkipField(value, create) == value = <<>> /\ ~create

\* (a slip: a field is skipped when the tree did not hold it before the call,
\* not when its value is empty)
Map_ByPresence(s, node) ==
    LET got == PathGetter(node, s.Path)
    IN  IF got.Err # Nil THEN [Node |-> got.Node, Result |-> Nil, Err |-> got.Err]
        ELSE IF got.Node # node /\ ~s.CreateIfNotPresent
        THEN [Node |-> got.Node, Result |-> Nil, Err |-> Nil]
        ELSE [Node |-> got.Node,
              Result |-> <<[fieldPath |-> s.Path, value |-> got.Match[1].Value]>>,
              Err |-> Nil]

\* ReplicaSelector.Map: the node after the call, the replica parameters found
\* (the field path and the value of each) and the error
Map(s, node) ==
    LET got == PathGetter(node, s.Path)
    IN  IF got.Err # Nil THEN [Node |-> got.Node, Result |-> Nil, Err |-> got.Err]
        ELSE IF SkipField(got.Match[1].Value, s.CreateIfNotPresent)
        THEN [Node |-> got.Node, Result |-> Nil, Err |-> Nil]
        ELSE [Node |-> got.Node,
              Result |-> <<[fieldPath |-> s.Path, value |-> got.Match[1].Value]>>,
              Err |-> Nil]

\* the resources Map is called with
ExtraKeys == <<"paused", "strategy", "template">>

ReplicaFields ==
    { <<>> } \cup { <<[Key |-> "replicas", Node |-> ScalarNode(v)]>> :
                      v \in { <<"3">>, <<"0">>, <<"5">>, <<"1", "0">>, <<"a">> } }

SpecNodes ==
    { ScalarNode(<<"x">>) }
    \cup { MappingNode([i \in 1..k |-> [Key |-> ExtraKeys[i], Node |-> ScalarNode(<<"y">>)]] \o r) :
             k \in 0..MaxExtraFields, r \in ReplicaFields }

Resources ==
    { MappingNode(<<[Key |-> "kind", Node |-> ScalarNode(<<"D">>)]>>) }
    \cup { MappingNode(<<[Key |-> "kind", Node |-> ScalarNode(<<"D">>)], [Key |-> "spec", Node |-> n]>>) :
             n \in SpecNodes }

Selectors ==
    { [Path |-> path, CreateIfNotPresent |-> c] :
        path \in { <<"spec", "replicas">>, <<"replicas">> }, c \in BOOLEAN }

InitSelector ==
    /\ rsSelector \in Selectors
    /\ rsNode \in Resources
    /\ rsBefore = rsNode
    /\ rsResult = Nil
    /\ IdleReplicas
    /\ IdleNames
    /\ IdlePatches
    /\ IdleLate
    /\ IdleDefinition
    /\ IdleExperiment
    /\ IdleTrial

DoMap ==
    /\ rsResult = Nil
    /\ rsNode' = Map(rsSelector, rsNode).Node
    /\ rsResult' = <<[Result |-> Map(rsSelector, rsNode).Result, Err |-> Map(rsSelector, rsNode).Err]>>
    /\ UNCHANGED <<rsSelector, rsBefore, cdVars, fcVars, taVars, njVars, rpVars, pnVars, kpVars, lateVars>>

NextSelector == DoMap

SpecSelector == InitSelector /\ [][NextSelector]_vars

\* the node at the path in a tree, Nil when a field of the path is missing
\* or the path runs into a scalar
RECURSIVE NodeAt(_, _)
NodeAt(node, path) ==
    IF path = <<>> THEN <<node>>
    ELSE IF node.Kind # "Mapping" \/ FieldIndex(node, Head(path)) = 0 THEN Nil
    ELSE NodeAt(node.Fields[FieldIndex(node, Head(path))].Node, Tail(path))

\* the replica field of the resource Map was called with
ReplicaFieldBefore == NodeAt(rsBefore, rsSelector.Path)

C17_MapLeavesTree == rsResult # Nil => rsNode = rsBefore

(***************************************************************************)
(* experiment: parameter names                                             *)
(***************************************************************************)

\* the most container resources of an experiment, the most resource paths
\* (containers) of one of them
MaxResources == 2
MaxContainers == 2

\* parts joined with an underscore
RECURSIVE JoinUnderscore(_)
JoinUnderscore(parts) ==
    IF parts = <<>> THEN <<>>
    ELSE IF Len(parts) = 1 THEN parts[1]
    ELSE parts[1] \o <<"_">> \o JoinUnderscore(Tail(parts))

\* the suffixes the names of one resources path end with
Cpu == <<"c", "p", "u">>
Memory == <<"m", "e", "m", "o", "r", "y">>

\* the targets that have a resources path, and so emit both suffixes
EmittingTargets(crs) ==
    { crs[i].targetRef : i \in { j \in DOMAIN crs : crs[j].resourcesPaths # <<>> } }

\* parameterNamePrefix: the prefix table of the experiment; the name of the
\* resource goes in front when different targets emit the same suffix.
parameterNamePrefix(crs) == [resource |-> Cardinality(EmittingTargets(crs)) > 1]

\* the name of the container a resources path leads to:
\* spec/template/spec/containers/[name=NAME]/resources
ContainerOfPath(path) == path.container

\* parameterName(p, cr)(ref, path, name): the suffix, behind the name of the
\* container when the resource has several resources paths, behind the name
\* of the resource when the prefix table asks for it.
parameterName(p, cr, ref, path, name) ==
    JoinUnderscore((IF p.resource THEN <<ref.Name>> ELSE <<>>)
                   \o (IF Len(cr.resourcesPaths) > 1 THEN <<ContainerOfPath(path)>> ELSE <<>>)
                   \o <<name>>)

\* (a slip: the names are made without the prefix table)
NamesOfResource_BareTable(p, cr) ==
    LET pair(i) == << parameterName([resource |-> FALSE], cr, cr.targetRef, cr.resourcesPaths[i], Cpu),
                      parameterName([resource |-> FALSE], cr, cr.targetRef, cr.resourcesPaths[i], Memory) >>
        RECURSIVE upTo(_)
        upTo(n) == IF n = 0 THEN <<>> ELSE upTo(n - 1) \o pair(n)
    IN  upTo(Len(cr.resourcesPaths))

\* the names of one container resources: cpu and memory of every path, in turn
NamesOfResource(p, cr) ==
    LET pair(i) == << parameterName(p, cr, cr.targetRef, cr.resourcesPaths[i], Cpu),
                      parameterName(p, cr, cr.targetRef, cr.resourcesPaths[i], Memory) >>
        RECURSIVE upTo(_)
        upTo(n) == IF n = 0 THEN <<>> ELSE upTo(n - 1) \o pair(n)
    IN  upTo(Len(cr.resourcesPaths))

\* all the names of the experiment, in the order of the resources
RECURSIVE NamesOfResources(_, _)
NamesOfResources(p, crs) ==
    IF crs = <<>> THEN <<>>
    ELSE NamesOfResource(p, Head(crs)) \o NamesOfResources(p, Tail(crs))

\* the names TestParameterNames collects in actual
ActualNames(crs) == NamesOfResources(parameterNamePrefix(crs), crs)

\* the experiments the names are generated for
Test == <<"t", "e", "s", "t">>
Test1 == <<"t", "e", "s", "t", "1">>
Test2 == <<"t", "e", "s", "t", "2">>
Test1Test1 == <<"t", "e", "s", "t", "1", "_", "t", "e", "s", "t", "1">>

ResourceNames == {Test, Test1, Test2, Test1Test1}

SelectedContainerNames == {Test, Test1, Test2}

\* sequences without a repeated element
Distinct(seq) == \A i, j \in DOMAIN seq : seq[i] = seq[j] => i = j

ContainerLists ==
    { cs \in SeqUpTo(SelectedContainerNames, MaxContainers) : cs # <<>> /\ Distinct(cs) }

ContainerResources ==
    { [targetRef |-> [Kind |-> "Deployment", Name |-> n],
       resourcesPaths |-> [i \in DOMAIN cs |-> [container |-> cs[i]]]] :
        n \in ResourceNames, cs \in ContainerLists }

ContainerResourcesLists ==
    { crs \in SeqUpTo(ContainerResources, MaxResources) :
        Distinct([i \in DOMAIN crs |-> crs[i].targetRef]) }

InitNames ==
    /\ pnResources \in ContainerResourcesLists
    /\ pnNames = Nil
    /\ IdleReplicas
    /\ IdleSelector
    /\ IdlePatches
    /\ IdleLate
    /\ IdleDefinition
    /\ IdleExperiment
    /\ IdleTrial

DoParameterNames ==
    /\ pnNames = Nil
    /\ pnNames' = <<ActualNames(pnResources)>>
    /\ UNCHANGED <<pnResources, cdVars, fcVars, taVars, njVars, rpVars, rsVars, kpVars, lateVars>>

NextNames == DoParameterNames

SpecNames == InitNames /\ [][NextNames]_vars

\* C18: the names generated for one experiment are pairwise distinct, for
\* every set of resources and containers, names with an underscore included.
C18_NamesDistinct == pnNames # Nil => Distinct(pnNames[1])

\* the number of names generated for the resources before the k-th
RECURSIVE NamesBefore(_)
NamesBefore(k) == IF k <= 1 THEN 0 ELSE NamesBefore(k - 1) + 2 * Len(pnResources[k - 1].resourcesPaths)

\* what goes in front of the suffix for the i-th container of the k-th
\* resource: the resource name when there are several resources, then the
\* container name when the resource has several containers
ExpectedPrefix(k, i) ==
    (IF Len(pnResources) > 1 THEN pnResources[k].targetRef.Name \o <<"_">> ELSE <<>>)
    \o (IF Len(pnResources[k].resourcesPaths) > 1
        THEN pnResources[k].resourcesPaths[i].container \o <<"_">>
        ELSE <<>>)

\* C19: a single resource with a single container gets the bare suffixes; a
\* resource with several containers gets the container name in front; with
\* several resources every name has the resource name in front, outermost,
\* and a resource with a single container gets nothing but that.
C19_MinimalPrefixes ==
    pnNames # Nil =>
        /\ Len(pnNames[1]) = NamesBefore(Len(pnResources) + 1)
        /\ \A k \in DOMAIN pnResources : \A i \in DOMAIN pnResources[k].resourcesPaths :
              /\ pnNames[1][NamesBefore(k) + 2 * i - 1] = ExpectedPrefix(k, i) \o <<"c", "p", "u">>
              /\ pnNames[1][NamesBefore(k) + 2 * i] = ExpectedPrefix(k, i) \o <<"m", "e", "m", "o", "r", "y">>

\* C19 witness: deployment test1 with the containers test1 and test2 and
\* deployment test2 with the container test got test1_test1_cpu,
\* test1_test1_memory, test1_test2_cpu, test1_test2_memory, test2_cpu,
\* test2_memory.
C19_Witness ==
    /\ pnResources =
         << [targetRef |-> [Kind |-> "Deployment", Name |-> Test1],
             resourcesPaths |-> <<[container |-> Test1], [container |-> Test2]>>],
            [targetRef |-> [Kind |-> "Deployment", Name |-> Test2],
             resourcesPaths |-> <<[container |-> Test]>>] >>
    /\ pnNames =
         << << <<"t", "e", "s", "t", "1", "_", "t", "e", "s", "t", "1", "_", "c", "p", "u">>,
               <<"t", "e", "s", "t", "1", "_", "t", "e", "s", "t", "1", "_", "m", "e", "m", "o", "r", "y">>,
               <<"t", "e", "s", "t", "1", "_", "t", "e", "s", "t", "2", "_", "c", "p", "u">>,
               <<"t", "e", "s", "t", "1", "_", "t", "e", "s", "t", "2", "_", "m", "e", "m", "o", "r", "y">>,
               <<"t", "e", "s", "t", "2", "_", "c", "p", "u">>,
               <<"t", "e", "s", "t", "2", "_", "m", "e", "m", "o", "r", "y">> >> >>

(***************************************************************************)
(* patch: createKustomizePatches                                           *)
(***************************************************************************)

\* the most patch templates of an experiment
MaxTemplates == 2

\* the text an assigned value is rendered as
RenderValue(value) == IF value.Type = "Int" THEN FormatInt(value.IntVal) ELSE <<value.StrVal>>

\* the assignment of the trial for the parameter, Nil without one
AssignedValue(t, name) ==
    IF \E i \in DOMAIN t.Assignments : t.Assignments[i].Name = name
    THEN <<(CHOOSE a \in Range(t.Assignments) : a.Name = name).Value>>
    ELSE Nil

\* patch.RenderTemplate: the target reference of the template and its patch
\* with every placeholder replaced by the text of the value assigned; an
\* error when the trial has no assignment for a placeholder.
RenderTemplate(t, tpl) ==
    IF \E i \in DOMAIN tpl.Fields : AssignedValue(t, tpl.Fields[i].Parameter) = Nil
    THEN [Ref |-> Nil, Data |-> Nil, Err |-> <<"no value">>]
    ELSE [Ref |-> <<tpl.TargetRef>>,
          Data |-> <<[IsObject |-> tpl.IsObject,
                      Fields |-> [i \in DOMAIN tpl.Fields |->
                                    [Key |-> tpl.Fields[i].Key,
                                     Text |-> RenderValue(AssignedValue(t, tpl.Fields[i].Parameter)[1])]]]>>,
          Err |-> Nil]

\* (a slip: the patches rendered so far are returned with the error)
ReturnError_KeepPatches(patches, err) == [Patches |-> patches, Err |-> err]

\* return nil, err
ReturnError(patches, err) == [Patches |-> Nil, Err |-> err]

\* the patch for a rendered template: the document with the name, namespace
\* and group/version/kind of the reference set on it, and the reference as
\* the target
KustomizePatch(ref, data) ==
    [ Patch |-> [Name |-> ref.Name, Namespace |-> ref.Namespace,
                 Group |-> ref.Group, Version |-> ref.Version, Kind |-> ref.Kind,
                 Fields |-> data.Fields],
      Target |-> [Gvk |-> [Group |-> ref.Group, Version |-> ref.Version, Kind |-> ref.Kind],
                  Name |-> ref.Name, Namespace |-> ref.Namespace] ]

\* the key of the patch of the template at idx: "patch-" and the index
PatchKey(idx) == <<"p", "a", "t", "c", "h", "-">> \o FormatInt(idx)

\* the loop of createKustomizePatches from the template at idx on; the first
\* template that does not render, or whose rendered patch is no JSON object,
\* ends the call.
RECURSIVE RenderFrom(_, _, _, _)
RenderFrom(patchSpec, t, idx, patches) ==
    IF idx >= Len(patchSpec) THEN [Patches |-> patches, Err |-> Nil]
    ELSE LET rendered == RenderTemplate(t, patchSpec[idx + 1])
         IN  IF rendered.Err # Nil THEN ReturnError(patches, rendered.Err)
             ELSE IF ~rendered.Data[1].IsObject THEN ReturnError(patches, <<"json: cannot unmarshal">>)
             ELSE RenderFrom(patchSpec, t, idx + 1,
                             [k \in DOMAIN patches \cup {PatchKey(idx)} |->
                                 IF k = PatchKey(idx)
                                 THEN KustomizePatch(rendered.Ref[1], rendered.Data[1])
                                 ELSE patches[k]])

createKustomizePatches(patchSpec, t) == RenderFrom(patchSpec, t, 0, <<>>)

\* the templates and trials createKustomizePatches is called with
PlaceholderLists ==
    { <<>>,
      <<[Key |-> "cpu", Parameter |-> "a"]>>,
      <<[Key |-> "memory", Parameter |-> "b"]>>,
      <<[Key |-> "cpu", Parameter |-> "a"], [Key |-> "memory", Parameter |-> "b"]>> }

TargetRefs ==
    { [Group |-> "apps", Version |-> "v1", Kind |-> "Deployment", Namespace |-> "default", Name |-> "d"],
      [Group |-> "apps", Version |-> "v1", Kind |-> "StatefulSet", Namespace |-> "", Name |-> "s"] }

PatchTemplates ==
    { [TargetRef |-> r, IsObject |-> TRUE, Fields |-> f] : r \in TargetRefs, f \in PlaceholderLists }
    \cup { [TargetRef |-> r, IsObject |-> FALSE, Fields |-> <<[Key |-> "cpu", Parameter |-> "a"]>>] :
             r \in {CHOOSE x \in TargetRefs : x.Kind = "Deployment"} }

PatchTrials ==
    { [BaseTrial EXCEPT !.Name = JobTrialName, !.Assignments = as] :
        as \in { <<>>,
                 <<[Name |-> "a", Value |-> IntValue(250)]>>,
                 <<[Name |-> "a", Value |-> IntValue(250)], [Name |-> "b", Value |-> StringValue("x")]>> } }

InitPatches ==
    /\ kpPatches \in SeqUpTo(PatchTemplates, MaxTemplates)
    /\ kpResult = Nil
    /\ trial \in PatchTrials
    /\ taBefore = trial
    /\ taArg = Nil
    /\ rvResult = Nil
    /\ njDefaulted = Nil
    /\ njJob = Nil
    /\ IdleReplicas
    /\ IdleSelector
    /\ IdleNames
    /\ IdleLate
    /\ IdleDefinition
    /\ IdleExperiment

DoCreateKustomizePatches ==
    /\ kpResult = Nil
    /\ kpResult' = <<createKustomizePatches(kpPatches, trial)>>
    /\ UNCHANGED <<kpPatches, cdVars, fcVars, taVars, njVars, rpVars, rsVars, pnVars, lateVars>>

NextPatches == DoCreateKustomizePatches

SpecPatches == InitPatches /\ [][NextPatches]_vars

\* the parameters the trial has an assignment for
AssignedNames == { trial.Assignments[i].Name : i \in DOMAIN trial.Assignments }

\* a template refers to a parameter the trial has no assignment for
MissingParameter ==
    \E i \in DOMAIN kpPatches : \E j \in DOMAIN kpPatches[i].Fields :
        kpPatches[i].Fields[j].Parameter \notin AssignedNames

\* C20: when the assignment of the trial lacks a parameter a template refers
\* to, createKustomizePatches returns an error and no patch at all; when it
\* succeeds it returns exactly one patch per template, targeted at the
\* group/version/kind, namespace and name of the template, with every
\* placeholder replaced by the value assigned.
C20_AllOrNothing ==
    kpResult # Nil =>
        /\ MissingParameter => (kpResult[1].Err # Nil /\ kpResult[1].Patches = <<>>)
        /\ kpResult[1].Err # Nil => kpResult[1].Patches = <<>>
        /\ kpResult[1].Err = Nil =>
              /\ Cardinality(DOMAIN kpResult[1].Patches) = Len(kpPatches)
              /\ \A i \in DOMAIN kpPatches :
                    LET key == <<"p", "a", "t", "c", "h", "-">> \o FormatInt(i - 1)
                        tpl == kpPatches[i]
                    IN  /\ key \in DOMAIN kpResult[1].Patches
                        /\ kpResult[1].Patches[key].Target =
                              [Gvk |-> [Group |-> tpl.TargetRef.Group, Version |-> tpl.TargetRef.Version,
                                        Kind |-> tpl.TargetRef.Kind],
                               Name |-> tpl.TargetRef.Name, Namespace |-> tpl.TargetRef.Namespace]
                        /\ Len(kpResult[1].Patches[key].Patch.Fields) = Len(tpl.Fields)
                        /\ \A j \in DOMAIN tpl.Fields :
                              \E a \in Range(trial.Assignments) :
                                  /\ a.Name = tpl.Fields[j].Parameter
                                  /\ kpResult[1].Patches[key].Patch.Fields[j] =
                                        [Key |-> tpl.Fields[j].Key,
                                         Text |-> IF a.Value.Type = "Int" THEN FormatInt(a.Value.IntVal)
                                                  ELSE <<a.Value.StrVal>>]

\* C20 witness: the first template renders, the second refers to a parameter
\* without assignment, and the call returned an error and no patch.
C20_Witness ==
    /\ kpResult # Nil
    /\ Len(kpPatches) = 2
    /\ \A j \in DOMAIN kpPatches[1].Fields : kpPatches[1].Fields[j].Parameter \in AssignedNames
    /\ kpPatches[1].IsObject
    /\ \E j \in DOMAIN kpPatches[2].Fields : kpPatches[2].Fields[j].Parameter \notin AssignedNames
    /\ kpResult[1].Err # Nil
    /\ kpResult[1].Patches = <<>>

(***************************************************************************)
(* generation: Map, Parameters and Patch in sequence                       *)
(***************************************************************************)

\* the naming functions a pass is run with: the name alone, the name after
\* the kind of the resource, the name after the field path
Namers == {"bare", "resource", "path"}

\* name(p.meta, p.fieldPath, "replicas") for the naming function
NameOf(namer, meta, fieldPath, name) ==
    IF namer = "bare" THEN <<name>>
    ELSE IF namer = "resource" THEN <<meta, name>>
    ELSE fieldPath \o <<name>>

\* the kind of the resource, its meta
MetaOf(node) ==
    IF FieldIndex(node, "kind") = 0 THEN <<>>
    ELSE node.Fields[FieldIndex(node, "kind")].Node.Value

\* replicaParameter.Patch: the filter sets the field at the field path to an
\* integer scalar that holds the placeholder of the named value
replicaPatch(namer, meta, fieldPath) ==
    [Path |-> fieldPath,
     Value |-> <<"{{ .Values.", NameOf(namer, meta, fieldPath, "replicas"), " }}">>,
     Tag |-> "!!int"]

\* replicaParameter.Parameters with the naming function: the parameters
\* take the name the naming function makes
NamedParameters(namer, meta, p) ==
    LET got == replicaParameters(p.value)
    IN  [Parameters |-> [i \in DOMAIN got.Parameters |->
                            [got.Parameters[i] EXCEPT !.Name = NameOf(namer, meta, p.fieldPath, "replicas")]],
         Err |-> got.Err]

\* one pass over the resource: Map, then Parameters and Patch of every
\* replica parameter found. It yields the tree afterwards, the parameter
\* definitions and the errors of Parameters per field, the patch templates
\* and the error of Map.
GeneratePass(s, namer, node) ==
    LET mapped == Map(s, node)
        meta == MetaOf(node)
    IN  [Node |-> mapped.Node,
         Parameters |-> [i \in DOMAIN mapped.Result |-> NamedParameters(namer, meta, mapped.Result[i])],
         Patches |-> [i \in DOMAIN mapped.Result |-> replicaPatch(namer, meta, mapped.Result[i].fieldPath)],
         Err |-> mapped.Err]

\* the passes made over one resource
MaxPasses == 2

InitGenerate ==
    /\ gnSelector \in Selectors
    /\ gnNamer \in Namers
    /\ gnNode \in Resources
    /\ gnRuns = <<>>
    /\ IdleSync
    /\ IdleObjective
    /\ IdleStop
    /\ IdleConversion
    /\ IdleRunner
    /\ IdleReplicas
    /\ IdleSelector
    /\ IdleNames
    /\ IdlePatches
    /\ IdleDefinition
    /\ IdleExperiment
    /\ IdleTrial

DoGenerate ==
    /\ Len(gnRuns) < MaxPasses
    /\ LET pass == GeneratePass(gnSelector, gnNamer, gnNode)
       IN  /\ gnNode' = pass.Node
           /\ gnRuns' = Append(gnRuns, [Parameters |-> pass.Parameters,
                                        Patches |-> pass.Patches,
                                        Err |-> pass.Err])
    /\ UNCHANGED <<gnSelector, gnNamer, gnOthers>>

NextGenerate == DoGenerate

SpecGenerate == InitGenerate /\ [][NextGenerate]_vars

\* C22: every further pass of Map, Parameters and Patch over the same resource
\* with the same selector and naming function yields the parameter
\* definitions and the patch templates of the first pass.
C22_SecondPassSame ==
    \A r \in DOMAIN gnRuns : gnRuns[r] = gnRuns[1]

\* two passes were made over a resource without the replica field; the first
\* pass has added the empty field to the tree, and both have yielded nothing
C22_Witness ==
    /\ Len(gnRuns) = 2
    /\ gnSelector = [Path |-> <<"spec", "replicas">>, CreateIfNotPresent |-> FALSE]
    /\ NodeAt(gnNode, gnSelector.Path) = <<ScalarNode(<<>>)>>
    /\ gnRuns[1].Patches = <<>>
    /\ gnRuns[2].Patches = <<>>

\* two passes over a resource with three replicas yield the same parameter
C22_WitnessFound ==
    /\ Len(gnRuns) = 2
    /\ Len(gnRuns[1].Parameters) = 1
    /\ Len(gnRuns[1].Parameters[1].Parameters) = 1
    /\ gnRuns[2] = gnRuns[1]

\* the name in the placeholder of a patch template
PlaceholderName(patch) == patch.Value[2]

\* C27: every patch template of a pass names a parameter that the pass
\* declares: the Parameters of the field that emitted the template return a
\* parameter of the name in the placeholder.
C27_TemplatesNameDeclaredParameters ==
    \A r \in DOMAIN gnRuns : \A i \in DOMAIN gnRuns[r].Patches :
        \E j \in DOMAIN gnRuns[r].Parameters[i].Parameters :
            gnRuns[r].Parameters[i].Parameters[j].Name = PlaceholderName(gnRuns[r].Patches[i])

(***************************************************************************)
(* synchronization: check, convert and send under the ownership token      *)
(***************************************************************************)

\* the most writes the other writer of the record makes
MaxWrites == 2

\* the definitions of the records that are synchronized: one metric and up
\* to MaxNames parameters
SyncDefinitions == { d \in Definitions : d.Metrics = <<"a">> }

\* the cluster experiment with the definitions, every parameter with a range
ExperimentOf(d) ==
    [Name |-> "exp", Labels |-> <<>>, Optimization |-> <<>>, Constraints |-> <<>>,
     Parameters |-> [i \in DOMAIN d.Parameters |->
                        [Name |-> d.Parameters[i], Min |-> 1, Max |-> 3, Values |-> <<>>, Baseline |-> Nil]],
     Metrics |-> [i \in DOMAIN d.Metrics |-> [Name |-> d.Metrics[i], Minimize |-> TRUE, Optimize |-> Nil]]]

\* the names of the parameters and of the metrics of an API experiment
DefinitionsOf(out) ==
    [Parameters |-> [i \in DOMAIN out.Parameters |-> out.Parameters[i].Name],
     Metrics |-> [i \in DOMAIN out.Metrics |-> out.Metrics[i].Name]]

\* (a slip: the token is taken whoever holds it)
TokenFree_Always(owner) == TRUE

\* the exclusive ownership token of the record can be acquired
TokenFree(owner) == owner = "none"

InitSync ==
    /\ syRecord \in SyncDefinitions
    /\ syRemote \in SyncDefinitions
    /\ syOwner = "none"
    /\ syPc = "idle"
    /\ syWriterPc = "idle"
    /\ syChecked = Nil
    /\ sySent = Nil
    /\ syWrites = 0
    /\ IdlePass
    /\ IdleObjective
    /\ IdleStop
    /\ IdleConversion
    /\ IdleRunner
    /\ IdleReplicas
    /\ IdleSelector
    /\ IdleNames
    /\ IdlePatches
    /\ IdleDefinition
    /\ IdleExperiment
    /\ IdleTrial

\* the synchronization step acquires the token of the record
SyncAcquire ==
    /\ syPc = "idle"
    /\ TokenFree(syOwner)
    /\ syOwner' = "sync"
    /\ syPc' = "acquired"
    /\ syChecked' = Nil
    /\ sySent' = Nil
    /\ UNCHANGED <<syRecord, syRemote, syWriterPc, syWrites, syOthers>>

\* CheckDefinition of the record against the API experiment
SyncCheck ==
    /\ syPc = "acquired"
    /\ IF CheckDefinition(syRecord, syRemote) = NoError
       THEN syChecked' = <<syRecord>> /\ syPc' = "checked"
       ELSE syChecked' = Nil /\ syPc' = "failed"
    /\ UNCHANGED <<syRecord, syRemote, syOwner, syWriterPc, sySent, syWrites, syOthers>>

\* FromCluster of the record, and the API experiment is sent
SyncSend ==
    /\ syPc = "checked"
    /\ sySent' = FromCluster(ExperimentOf(syRecord), Nil).out
    /\ syPc' = "sent"
    /\ UNCHANGED <<syRecord, syRemote, syOwner, syWriterPc, syChecked, syWrites, syOthers>>

\* the token is released after the step, on the error path as well
SyncRelease ==
    /\ syPc \in {"sent", "failed"}
    /\ syOwner' = IF syOwner = "sync" THEN "none" ELSE syOwner
    /\ syPc' = "idle"
    /\ UNCHANGED <<syRecord, syRemote, syWriterPc, syChecked, sySent, syWrites, syOthers>>

\* another writer of the record acquires the token
WriterAcquire ==
    /\ syWriterPc = "idle"
    /\ syWrites < MaxWrites
    /\ TokenFree(syOwner)
    /\ syOwner' = "writer"
    /\ syWriterPc' = "acquired"
    /\ UNCHANGED <<syRecord, syRemote, syPc, syChecked, sySent, syWrites, syOthers>>

\* it changes the definitions of the record
WriterMutate ==
    /\ syWriterPc = "acquired"
    /\ \E d \in SyncDefinitions \ {syRecord} : syRecord' = d
    /\ syWriterPc' = "written"
    /\ syWrites' = syWrites + 1
    /\ UNCHANGED <<syRemote, syOwner, syPc, syChecked, sySent, syOthers>>

\* and releases the token
WriterRelease ==
    /\ syWriterPc = "written"
    /\ syOwner' = IF syOwner = "writer" THEN "none" ELSE syOwner
    /\ syWriterPc' = "idle"
    /\ UNCHANGED <<syRecord, syRemote, syPc, syChecked, sySent, syWrites, syOthers>>

NextSync ==
    \/ SyncAcquire
    \/ SyncCheck
    \/ SyncSend
    \/ SyncRelease
    \/ WriterAcquire
    \/ WriterMutate
    \/ WriterRelease

SpecSync == InitSync /\ [][NextSync]_vars

\* a mutation of the record is in flight
SyncInFlight == syPc # "idle"
WriterInFlight == syWriterPc # "idle"

MaxApps == 2

\* the applications: with and without a namespace and a name
Applications == [Namespace : {"", "ns"}, Name : {"", "app"}]

\* (a slip: only the namespace is looked at)
BadApplication_NamespaceOnly(app) == app.Namespace = ""

\* app.Namespace == "" || app.Name == ""
BadApplication(app) == app.Namespace = "" \/ app.Name = ""

\* The body of the case app := <-r.appCh up to the send or the return: what
\* it calls, in order, and the error it goes on to send (Nil: it returns).
\* Whether g.Execute, yaml.Unmarshal and r.client.Create fail is up to the
\* application and the cluster.
RunApplication(app, executeFails, unmarshalFails, createFails) ==
    IF BadApplication(app) THEN [Calls |-> <<>>, Err |-> <<"bad app.yaml">>]
    ELSE IF executeFails THEN [Calls |-> <<"execute">>, Err |-> <<"execute">>]
    ELSE IF unmarshalFails THEN [Calls |-> <<"execute", "unmarshal">>, Err |-> <<"unmarshal">>]
    ELSE IF createFails THEN [Calls |-> <<"execute", "unmarshal", "create">>, Err |-> <<"create">>]
    ELSE [Calls |-> <<"execute", "unmarshal", "create", "created">>, Err |-> Nil]

\* (a slip: Run returns after it has sent an error)
AfterSend_Return == "returned"

\* continue: back to the select
AfterSend == "select"

\* an entry of the log: what was done, for which application (0: for none)
Event(ev, app) == [ev |-> ev, app |-> app]

InitRunner ==
    /\ rnApps \in SeqUpTo(Applications, MaxApps)
    /\ rnTaken = 0
    /\ rnPc = "select"
    /\ rnErr = Nil
    /\ rnCancelled = FALSE
    /\ rnReceiving = TRUE
    /\ rnErrors = <<>>
    /\ rnLog = <<>>
    /\ IdlePass
    /\ IdleObjective
    /\ IdleStop
    /\ IdleConversion
    /\ IdleSync
    /\ IdleReplicas
    /\ IdleSelector
    /\ IdleNames
    /\ IdlePatches
    /\ IdleDefinition
    /\ IdleExperiment
    /\ IdleTrial

\* case app := <-r.appCh, up to the blocking send or the return
TakeApplication ==
    /\ rnPc = "select"
    /\ rnTaken < Len(rnApps)
    /\ \E executeFails, unmarshalFails, createFails \in BOOLEAN :
         LET id == rnTaken + 1
             run == RunApplication(rnApps[id], executeFails, unmarshalFails, createFails)
             calls == [i \in DOMAIN run.Calls |-> Event(run.Calls[i], id)]
         IN  /\ rnTaken' = id
             /\ rnErr' = run.Err
             /\ rnPc' = IF run.Err = Nil THEN "returned" ELSE "send"
             /\ rnLog' = rnLog \o <<Event("take", id)>> \o calls
                           \o (IF run.Err = Nil THEN <<Event("return", id)>> ELSE <<>>)
    /\ UNCHANGED <<rnApps, rnCancelled, rnReceiving, rnErrors, rnOthers>>

\* r.errCh <- err; continue. The channel has no buffer: the send ends when a
\* receiver takes the error.
SendError ==
    /\ rnPc = "send"
    /\ rnReceiving
    /\ rnErrors' = Append(rnErrors, [app |-> rnTaken, err |-> rnErr[1]])
    /\ rnLog' = Append(rnLog, Event("send", rnTaken))
    /\ rnErr' = Nil
    /\ rnPc' = AfterSend
    /\ UNCHANGED <<rnApps, rnTaken, rnCancelled, rnReceiving, rnOthers>>

\* case <-ctx.Done(): return
ReturnOnDone ==
    /\ rnPc = "select"
    /\ rnCancelled
    /\ rnPc' = "returned"
    /\ rnLog' = Append(rnLog, Event("return", 0))
    /\ UNCHANGED <<rnApps, rnTaken, rnErr, rnCancelled, rnReceiving, rnErrors, rnOthers>>

\* the context is cancelled
Cancel ==
    /\ ~rnCancelled
    /\ rnCancelled' = TRUE
    /\ UNCHANGED <<rnApps, rnTaken, rnPc, rnErr, rnReceiving, rnErrors, rnLog, rnOthers>>

\* the receiver stops reading the error channel
ReceiverStops ==
    /\ rnReceiving
    /\ rnReceiving' = FALSE
    /\ UNCHANGED <<rnApps, rnTaken, rnPc, rnErr, rnCancelled, rnErrors, rnLog, rnOthers>>

NextRunner ==
    \/ TakeApplication
    \/ SendError
    \/ ReturnOnDone
    \/ Cancel
    \/ ReceiverStops

SpecRunner == InitRunner /\ [][NextRunner]_vars

\* Run is scheduled fairly: a select with a ready case goes on, and a send
\* with a receiver at the channel ends
SpecRunnerFair ==
    /\ SpecRunner
    /\ WF_vars(TakeApplication)
    /\ WF_vars(SendError)
    /\ WF_vars(ReturnOnDone)

\* Run is blocked in the send of an error, the context is cancelled and no
\* receiver reads the channel
C24_BlockedInSend ==
    /\ rnPc = "send"
    /\ rnCancelled
    /\ ~rnReceiving

\* C24: once the context is cancelled, Run returns in the end, whatever it
\* is doing, the send of an error that no receiver reads included.
C24_CancelLeadsToReturn == rnCancelled ~> (rnPc = "returned")

\* the positions of the log with the event
EventsOf(ev) == { i \in DOMAIN rnLog : rnLog[i].ev = ev }

\* C25: one Run creates at most one experiment: a successful client.Create
\* is followed by the return alone, with no send on the error channel and no
\* further application taken; Run returns only after a successful Create or
\* on the cancelled context, never for a failed application.
C25_ReturnsAfterFirstCreate ==
    /\ Cardinality(EventsOf("created")) <= 1
    /\ \A i \in EventsOf("created") :
          /\ i + 1 = Len(rnLog)
          /\ rnLog[i + 1] = Event("return", rnLog[i].app)
          /\ rnTaken = rnLog[i].app
          /\ \A j \in EventsOf("send") : rnLog[j].app # rnLog[i].app
    /\ \A i \in EventsOf("return") :
          /\ i = Len(rnLog)
          /\ rnLog[i].app = 0 \/ (i > 1 /\ rnLog[i - 1] = Event("created", rnLog[i].app))
    /\ rnPc = "returned" <=> EventsOf("return") # {}

\* a first application has failed and its error was received, a second was
\* created, and Run has returned
C25_Witness ==
    /\ rnPc = "returned"
    /\ Len(rnErrors) = 1
    /\ rnLog[Len(rnLog) - 1] = Event("created", 2)

\* the error Run sends for an application that was taken: Nil for none
ErrorOf(id) ==
    IF \E i \in EventsOf("created") : rnLog[i].app = id THEN Nil
    ELSE IF ~\E i \in EventsOf("execute") : rnLog[i].app = id THEN <<"bad app.yaml">>
    ELSE IF ~\E i \in EventsOf("unmarshal") : rnLog[i].app = id THEN <<"execute">>
    ELSE IF ~\E i \in EventsOf("create") : rnLog[i].app = id THEN <<"unmarshal">>
    ELSE <<"create">>

\* the applications taken that have failed, in the order of arrival
RECURSIVE FailedUpTo(_)
FailedUpTo(n) ==
    IF n = 0 THEN <<>>
    ELSE IF ErrorOf(n) = Nil THEN FailedUpTo(n - 1)
    ELSE Append(FailedUpTo(n - 1), [app |-> n, err |-> ErrorOf(n)[1]])

\* C26: for every application that fails exactly one error is sent on the
\* error channel before the next application is taken, so that the errors
\* received are those of the failed applications in the order of arrival
\* (the last one still being sent left aside); an application with an empty
\* namespace or name is refused before g.Execute, and client.Create is not
\* called for it.
C26_OneErrorPerFailure ==
    /\ rnErrors = FailedUpTo(IF rnPc = "send" THEN rnTaken - 1 ELSE rnTaken)
    /\ rnPc = "send" => rnErr = ErrorOf(rnTaken)
    /\ \A i \in EventsOf("take") :
          rnLog[i].app > 1 /\ ErrorOf(rnLog[i].app - 1) # Nil =>
              Cardinality({ j \in EventsOf("send") : j < i /\ rnLog[j].app = rnLog[i].app - 1 }) = 1
    /\ \A j \in EventsOf("send") :
          Cardinality({ k \in EventsOf("send") : rnLog[k].app = rnLog[j].app }) = 1
    /\ \A i \in DOMAIN rnLog :
          (rnLog[i].app # 0 /\ "" \in {rnApps[rnLog[i].app].Namespace, rnApps[rnLog[i].app].Name})
              => rnLog[i].ev \in {"take", "send"}

\* two applications have failed, the first for its empty name and the second
\* in client.Create, and both errors were received in that order
C26_Witness ==
    /\ rnErrors = <<[app |-> 1, err |-> "bad app.yaml"], [app |-> 2, err |-> "create"]>>
    /\ rnApps[1].Name = ""
    /\ rnPc = "select"

(***************************************************************************)
(* v1alpha1: conversion of a Trial to the v1beta1 hub and back             *)
(***************************************************************************)

\* the longest list of patch operations or readiness checks of a trial
MaxMoved == 2

\* the generated conversion of one patch operation: field by field
Convert_PatchOperation(op) ==
    [TargetRef |-> op.TargetRef, PatchType |-> op.PatchType, Data |-> op.Data,
     AttemptsRemaining |-> op.AttemptsRemaining]

\* the generated conversion of one readiness check: field by field
Convert_ReadinessCheck(rc) ==
    [TargetRef |-> rc.TargetRef, ConditionTypes |-> rc.ConditionTypes,
     PeriodSeconds |-> rc.PeriodSeconds]

\* (a slip: the loop fills the new list from its end)
MovePatchOperations_Reversed(list) ==
    IF list # Nil
    THEN <<[i \in 1..Len(list[1]) |-> Convert_PatchOperation(list[1][Len(list[1]) + 1 - i])]>>
    ELSE Nil

\* The patch operations are moved: a list that is not nil becomes a new list
\* of the same length with every element converted in place i, nil becomes
\* nil.
MovePatchOperations(list) ==
    IF list # Nil
    THEN <<[i \in 1..Len(list[1]) |-> Convert_PatchOperation(list[1][i])]>>
    ELSE Nil

\* The readiness checks are moved in the same way.
MoveReadinessChecks(list) ==
    IF list # Nil
    THEN <<[i \in 1..Len(list[1]) |-> Convert_ReadinessCheck(list[1][i])]>>
    ELSE Nil

\* the generated conversions of the fields both versions have: field by
\* field, the other fields of out left as they are
autoConvert_TrialSpec(in, out) == [out EXCEPT !.Assignments = in.Assignments]
autoConvert_TrialStatus(in, out) == [out EXCEPT !.Phase = in.Phase]

Convert_v1alpha1_TrialSpec_To_v1beta1_TrialSpec(in, out) ==
    autoConvert_TrialSpec(in, [out EXCEPT !.JobTemplate = in.Template])

Convert_v1beta1_TrialSpec_To_v1alpha1_TrialSpec(in, out) ==
    autoConvert_TrialSpec(in, [out EXCEPT !.Template = in.JobTemplate])

\* the generated conversion of a trial: the spec and the status
autoConvert_v1alpha1_Trial_To_v1beta1_Trial(in, out) ==
    [Spec |-> Convert_v1alpha1_TrialSpec_To_v1beta1_TrialSpec(in.Spec, out.Spec),
     Status |-> autoConvert_TrialStatus(in.Status, out.Status)]

autoConvert_v1beta1_Trial_To_v1alpha1_Trial(in, out) ==
    [Spec |-> Convert_v1beta1_TrialSpec_To_v1alpha1_TrialSpec(in.Spec, out.Spec),
     Status |-> autoConvert_TrialStatus(in.Status, out.Status)]

Convert_v1alpha1_Trial_To_v1beta1_Trial(in, out) ==
    autoConvert_v1alpha1_Trial_To_v1beta1_Trial(in,
        [out EXCEPT !.Status.PatchOperations = MovePatchOperations(in.Spec.PatchOperations),
                    !.Status.ReadinessChecks = MoveReadinessChecks(in.Spec.ReadinessChecks)])

Convert_v1beta1_Trial_To_v1alpha1_Trial(in, out) ==
    autoConvert_v1beta1_Trial_To_v1alpha1_Trial(in,
        [out EXCEPT !.Spec.PatchOperations = MovePatchOperations(in.Status.PatchOperations),
                    !.Spec.ReadinessChecks = MoveReadinessChecks(in.Status.ReadinessChecks)])

\* the patch operations, readiness checks and templates of the trials
MovedOperations ==
    { [TargetRef |-> "d1", PatchType |-> "strategic", Data |-> "r3", AttemptsRemaining |-> 3],
      [TargetRef |-> "d2", PatchType |-> "json", Data |-> "r5", AttemptsRemaining |-> 0] }

MovedChecks ==
    { [TargetRef |-> "d1", ConditionTypes |-> <<"Ready">>, PeriodSeconds |-> 5],
      [TargetRef |-> "d2", ConditionTypes |-> <<>>, PeriodSeconds |-> 0] }

\* a list that is nil, or a list of up to MaxMoved elements
NilOrList(S) == {Nil} \cup { <<l>> : l \in SeqUpTo(S, MaxMoved) }

AlphaTrials ==
    { [Spec |-> [Template |-> t, PatchOperations |-> po, ReadinessChecks |-> rc, Assignments |-> <<"a=1">>],
       Status |-> [Phase |-> "Created"]] :
        t \in {Nil, <<"job">>}, po \in NilOrList(MovedOperations), rc \in NilOrList(MovedChecks) }

\* the trials that are converted into: a new one, and one that is in use
NewAlphaTrial ==
    [Spec |-> [Template |-> Nil, PatchOperations |-> Nil, ReadinessChecks |-> Nil, Assignments |-> <<>>],
     Status |-> [Phase |-> ""]]

NewBetaTrial ==
    [Spec |-> [JobTemplate |-> Nil, Assignments |-> <<>>],
     Status |-> [Phase |-> "", PatchOperations |-> Nil, ReadinessChecks |-> Nil]]

UsedAlphaTrial ==
    [Spec |-> [Template |-> <<"old">>,
               PatchOperations |-> <<<<[TargetRef |-> "d9", PatchType |-> "json", Data |-> "x", AttemptsRemaining |-> 1]>>>>,
               ReadinessChecks |-> <<<<[TargetRef |-> "d9", ConditionTypes |-> <<>>, PeriodSeconds |-> 1]>>>>,
               Assignments |-> <<"z=9">>],
     Status |-> [Phase |-> "Failed"]]

UsedBetaTrial ==
    [Spec |-> [JobTemplate |-> <<"old">>, Assignments |-> <<"z=9">>],
     Status |-> [Phase |-> "Failed",
                 PatchOperations |-> <<<<[TargetRef |-> "d9", PatchType |-> "json", Data |-> "x", AttemptsRemaining |-> 1]>>>>,
                 ReadinessChecks |-> <<<<[TargetRef |-> "d9", ConditionTypes |-> <<>>, PeriodSeconds |-> 1]>>>>]]

InitConversion ==
    /\ cvIn \in AlphaTrials
    /\ cvHub \in {NewBetaTrial, UsedBetaTrial}
    /\ cvBack \in {NewAlphaTrial, UsedAlphaTrial}
    /\ cvPc = "start"
    /\ IdlePass
    /\ IdleObjective
    /\ IdleStop
    /\ IdleSync
    /\ IdleRunner
    /\ IdleReplicas
    /\ IdleSelector
    /\ IdleNames
    /\ IdlePatches
    /\ IdleDefinition
    /\ IdleExperiment
    /\ IdleTrial

\* Trial.ConvertTo
DoConvertTo ==
    /\ cvPc = "start"
    /\ cvHub' = Convert_v1alpha1_Trial_To_v1beta1_Trial(cvIn, cvHub)
    /\ cvPc' = "hub"
    /\ UNCHANGED <<cvIn, cvBack, cvOthers>>

\* Trial.ConvertFrom
DoConvertFrom ==
    /\ cvPc = "hub"
    /\ cvBack' = Convert_v1beta1_Trial_To_v1alpha1_Trial(cvHub, cvBack)
    /\ cvPc' = "back"
    /\ UNCHANGED <<cvIn, cvHub, cvOthers>>

NextConversion ==
    \/ DoConvertTo
    \/ DoConvertFrom

SpecConversion == InitConversion /\ [][NextConversion]_vars

\* C28: the hub holds the patch operations and the readiness checks of the
\* spec of the v1alpha1 trial in its status, in the same number and order
\* and nil for nil, and its template as JobTemplate; converted back, the
\* v1alpha1 trial has the patch operations, the readiness checks and the
\* template of the original.
C28_MovedFieldsRoundTrip ==
    /\ cvPc \in {"hub", "back"} =>
          /\ cvHub.Status.PatchOperations = cvIn.Spec.PatchOperations
          /\ cvHub.Status.ReadinessChecks = cvIn.Spec.ReadinessChecks
          /\ cvHub.Spec.JobTemplate = cvIn.Spec.Template
    /\ cvPc = "back" =>
          /\ cvBack.Spec.PatchOperations = cvIn.Spec.PatchOperations
          /\ cvBack.Spec.ReadinessChecks = cvIn.Spec.ReadinessChecks
          /\ cvBack.Spec.Template = cvIn.Spec.Template

\* a trial with two patch operations, no list of readiness checks and no
\* template was converted into trials in use, and back
C28_Witness ==
    /\ cvPc = "back"
    /\ cvIn.Spec.PatchOperations # Nil
    /\ Len(cvIn.Spec.PatchOperations[1]) = 2
    /\ cvIn.Spec.PatchOperations[1][1] # cvIn.Spec.PatchOperations[1][2]
    /\ cvIn.Spec.ReadinessChecks = Nil
    /\ cvIn.Spec.Template = Nil
    /\ cvBack.Spec.ReadinessChecks = Nil
    /\ cvBack.Status.Phase = "Created"

(***************************************************************************)
(* server: StopExperiment                                                  *)
(***************************************************************************)

AnnotationNextTrialURL == "redskyops.dev/next-trial-url"
ErrExperimentStopped == "experiment-stopped"
ErrTrialUnavailable == "trial-unavailable"

\* The errors StopExperiment is called with: nil, an error of another type,
\* a *redskyapi.Error of either type, and an error that wraps a
\* *redskyapi.Error
StopErrors ==
    { Nil,
      <<[Kind |-> "other", Type |-> ""]>>,
      <<[Kind |-> "api", Type |-> ErrExperimentStopped]>>,
      <<[Kind |-> "api", Type |-> ErrTrialUnavailable]>>,
      <<[Kind |-> "wrapped", Type |-> ErrExperimentStopped]>> }

\* (a slip: every error of the API stops the experiment)
IsExperimentStopped_AnyType(err) == err # Nil /\ err[1].Kind = "api"

\* rse, ok := err.(*redskyapi.Error); ok && rse.Type == redskyapi.ErrExperimentStopped
IsExperimentStopped(err) ==
    err # Nil /\ err[1].Kind = "api" /\ err[1].Type = ErrExperimentStopped

\* exp.SetReplicas(0)
SetReplicas(exp, n) == [exp EXCEPT !.Replicas = <<n>>]

\* delete(exp.GetAnnotations(), key)
DeleteAnnotation(exp, key) ==
    [exp EXCEPT !.Annotations = [k \in (DOMAIN exp.Annotations) \ {key} |-> exp.Annotations[k]]]

\* StopExperiment: the experiment afterwards and the result
StopExperiment(exp, err) ==
    IF IsExperimentStopped(err)
    THEN [exp |-> DeleteAnnotation(SetReplicas(exp, 0), AnnotationNextTrialURL), result |-> TRUE]
    ELSE [exp |-> exp, result |-> FALSE]

\* the experiments: with and without a replica count, the annotation of the
\* next trial and another annotation
StopAnnotations ==
    { [k \in D |-> IF k = AnnotationNextTrialURL THEN "/trials/next" ELSE "x"] :
        D \in SUBSET {AnnotationNextTrialURL, "note"} }

StopExperiments ==
    [Replicas : {Nil, <<0>>, <<1>>, <<3>>}, Annotations : StopAnnotations, Phase : {"", "Running"}]

InitStop ==
    /\ seExp \in StopExperiments
    /\ seBefore = seExp
    /\ seErr \in StopErrors
    /\ seResult = Nil
    /\ IdlePass
    /\ IdleObjective
    /\ IdleSync
    /\ IdleRunner
    /\ IdleConversion
    /\ IdleReplicas
    /\ IdleSelector
    /\ IdleNames
    /\ IdlePatches
    /\ IdleDefinition
    /\ IdleExperiment
    /\ IdleTrial

DoStopExperiment ==
    /\ seResult = Nil
    /\ seExp' = StopExperiment(seExp, seErr).exp
    /\ seResult' = <<StopExperiment(seExp, seErr).result>>
    /\ UNCHANGED <<seBefore, seErr, seOthers>>

NextStop == DoStopExperiment

SpecStop == InitStop /\ [][NextStop]_vars

\* C29: for the experiment stopped error of the API StopExperiment sets the
\* replicas to 0, removes the annotation of the next trial (the other
\* annotations and the status stay) and returns true; for every other error,
\* nil included, it returns false and the experiment is as it was.
C29_StopsOnlyWhenStopped ==
    seResult # Nil =>
        IF seErr = <<[Kind |-> "api", Type |-> ErrExperimentStopped]>>
        THEN /\ seResult = <<TRUE>>
             /\ seExp.Replicas = <<0>>
             /\ AnnotationNextTrialURL \notin DOMAIN seExp.Annotations
             /\ \A k \in (DOMAIN seBefore.Annotations) \ {AnnotationNextTrialURL} :
                   k \in DOMAIN seExp.Annotations /\ seExp.Annotations[k] = seBefore.Annotations[k]
             /\ seExp.Phase = seBefore.Phase
        ELSE /\ seResult = <<FALSE>>
             /\ seExp = seBefore

\* a running experiment with three replicas and both annotations was stopped
C29_Witness ==
    /\ seResult = <<TRUE>>
    /\ seBefore.Replicas = <<3>>
    /\ DOMAIN seBefore.Annotations = {AnnotationNextTrialURL, "note"}
    /\ DOMAIN seExp.Annotations = {"note"}

\* an error of the API of another type has left the experiment alone
C29_WitnessOther ==
    /\ seResult = <<FALSE>>
    /\ seErr = <<[Kind |-> "api", Type |-> ErrTrialUnavailable]>>
    /\ seExp.Replicas = <<3>>

(***************************************************************************)
(* apps/v1alpha1: Objective.Default                                        *)
(***************************************************************************)

\* the most calls of Default on one objective
MaxDefaults == 2

UpperLetters == <<"A", "B", "C", "D", "E", "F", "G", "H", "I", "J", "K", "L", "M",
                  "N", "O", "P", "Q", "R", "S", "T", "U", "V", "W", "X", "Y", "Z">>
LowerLetters == <<"a", "b", "c", "d", "e", "f", "g", "h", "i", "j", "k", "l", "m",
                  "n", "o", "p", "q", "r", "s", "t", "u", "v", "w", "x", "y", "z">>

\* strings.ToLower
ToLowerRune(c) ==
    IF \E i \in DOMAIN UpperLetters : UpperLetters[i] = c
    THEN LowerLetters[CHOOSE i \in DOMAIN UpperLetters : UpperLetters[i] = c]
    ELSE c

ToLower(s) == [i \in DOMAIN s |-> ToLowerRune(s[i])]

\* s starts with the text
HasPrefix(s, text) == Len(s) >= Len(text) /\ SubSeq(s, 1, Len(text)) = text

\* strings.ReplaceAll(s, old, ""), old not empty
RECURSIVE RemoveAll(_, _)
RemoveAll(s, old) ==
    IF s = <<>> THEN <<>>
    ELSE IF HasPrefix(s, old) THEN RemoveAll(SubSeq(s, Len(old) + 1, Len(s)), old)
    ELSE <<Head(s)>> \o RemoveAll(Tail(s), old)

LatencyText == <<"l", "a", "t", "e", "n", "c", "y">>

\* the latency types
LatencyMaximum == <<"m", "a", "x", "i", "m", "u", "m">>
LatencyPercentile95 == <<"p", "e", "r", "c", "e", "n", "t", "i", "l", "e", "_", "9", "5">>

\* the runes a latency type is made of once it is normalised: letters in
\* lower case, digits and the underscore
ToName(s) ==
    SelectSeq(ToLower(s), LAMBDA c : IsDigit(c) \/ c = "_" \/ \E i \in DOMAIN LowerLetters : LowerLetters[i] = c)

\* FixLatency: the latency type a text entered by a user stands for, the
\* empty text for none
FixLatency(latency) ==
    LET name == ToName(latency)
    IN  IF name \in {<<"m", "a", "x", "i", "m", "u", "m">>, <<"m", "a", "x">>} THEN LatencyMaximum
        ELSE IF name \in {<<"p", "e", "r", "c", "e", "n", "t", "i", "l", "e", "_", "9", "5">>, <<"p", "9", "5">>} THEN LatencyPercentile95
        ELSE <<>>

\* (a slip: the other configurations are not counted)
countConfigs_Zero(obj) == 0

countConfigs(obj) ==
    (IF obj.Requests # Nil THEN 1 ELSE 0) + (IF obj.Latency # Nil THEN 1 ELSE 0)

\* the loop over the weights: a weight is set when the objective has none
\* for the resource
MergeWeights(have, weights) ==
    [k \in (DOMAIN have) \cup (DOMAIN weights) |-> IF k \in DOMAIN have THEN have[k] ELSE weights[k]]

\* a map of weights without an entry: make(corev1.ResourceList)
NoWeights == [k \in {} |-> 0]

defaultRequestsObjectiveWeights(obj, weights) ==
    IF obj.Requests = Nil /\ countConfigs(obj) # 0 THEN obj
    ELSE LET requests == IF obj.Requests = Nil THEN [Weights |-> Nil] ELSE obj.Requests[1]
             have == IF requests.Weights = Nil THEN NoWeights ELSE requests.Weights[1]
         IN  [obj EXCEPT !.Requests = <<[Weights |-> <<MergeWeights(have, weights)>>]>>]

defaultLatencyObjective(obj, latency) ==
    IF obj.Latency = Nil /\ countConfigs(obj) # 0 THEN obj
    ELSE LET have == IF obj.Latency = Nil THEN [LatencyType |-> <<>>] ELSE obj.Latency[1]
         IN  [obj EXCEPT !.Latency =
                 <<[LatencyType |-> IF have.LatencyType = <<>> THEN latency ELSE have.LatencyType]>>]

defaultObjectiveName(obj) ==
    IF obj.Requests # Nil THEN [obj EXCEPT !.Name = <<"r", "e", "q", "u", "e", "s", "t", "s">>]
    ELSE IF obj.Latency # Nil
    THEN [obj EXCEPT !.Name = <<"l", "a", "t", "e", "n", "c", "y", "-">> \o obj.Latency[1].LatencyType]
    ELSE obj

\* the weights of the named objectives
Weights(cpu, memory) == ("cpu" :> cpu) @@ ("memory" :> memory)

\* the default case of the switch
DefaultOther(in) ==
    LET latency == FixLatency(RemoveAll(in.Name, LatencyText))
        a == IF latency # <<>> THEN defaultLatencyObjective(in, latency) ELSE in
        b == IF a.Requests # Nil /\ a.Requests[1].Weights = Nil
             THEN defaultRequestsObjectiveWeights(a, Weights(1, 1))
             ELSE a
    IN  IF b.Name = <<>> THEN defaultObjectiveName(b) ELSE b

\* Objective.Default
ObjectiveDefault(in) ==
    LET name == ToLower(in.Name)
    IN  IF name = <<"c", "o", "s", "t">> THEN defaultRequestsObjectiveWeights(in, Weights(17, 3))
        ELSE IF name \in {<<"c", "o", "s", "t", "-", "g", "c", "p">>, <<"g", "c", "p", "-", "c", "o", "s", "t">>} THEN defaultRequestsObjectiveWeights(in, Weights(17, 2))
        ELSE IF name \in {<<"c", "o", "s", "t", "-", "a", "w", "s">>, <<"a", "w", "s", "-", "c", "o", "s", "t">>} THEN defaultRequestsObjectiveWeights(in, Weights(18, 5))
        ELSE IF name \in {<<"c", "p", "u", "-", "r", "e", "q", "u", "e", "s", "t", "s">>, <<"c", "p", "u">>} THEN defaultRequestsObjectiveWeights(in, "cpu" :> 1)
        ELSE IF name \in {<<"m", "e", "m", "o", "r", "y", "-", "r", "e", "q", "u", "e", "s", "t", "s">>, <<"m", "e", "m", "o", "r", "y">>} THEN defaultRequestsObjectiveWeights(in, "memory" :> 1)
        ELSE DefaultOther(in)

\* the objectives Default is called on
ObjectiveNames ==
    { <<>>,
      <<"c", "o", "s", "t">>,
      <<"C", "o", "s", "t">>,
      <<"g", "c", "p", "-", "c", "o", "s", "t">>,
      <<"a", "w", "s", "-", "c", "o", "s", "t">>,
      <<"c", "p", "u">>,
      <<"m", "e", "m", "o", "r", "y">>,
      <<"p", "9", "5">>,
      <<"l", "a", "t", "e", "n", "c", "y", "-", "p", "9", "5">>,
      <<"l", "a", "t", "e", "n", "c", "y", "-", "M", "a", "x">>,
      <<"f", "o", "o">> }

ObjectiveRequests ==
    {Nil} \cup { <<[Weights |-> w]>> : w \in {Nil, <<NoWeights>>, <<"cpu" :> 7>>, <<Weights(7, 9)>>} }

ObjectiveLatencies ==
    {Nil} \cup { <<[LatencyType |-> t]>> : t \in {<<>>, <<"m", "a", "x">>, <<"p", "e", "r", "c", "e", "n", "t", "i", "l", "e", "_", "9", "5">>} }

Objectives == [Name : ObjectiveNames, Requests : ObjectiveRequests, Latency : ObjectiveLatencies]

InitObjective ==
    /\ obObjective \in Objectives
    /\ obBefore = obObjective
    /\ obFirst = Nil
    /\ obCalls = 0
    /\ IdlePass
    /\ IdleSync
    /\ IdleRunner
    /\ IdleConversion
    /\ IdleStop
    /\ IdleReplicas
    /\ IdleSelector
    /\ IdleNames
    /\ IdlePatches
    /\ IdleDefinition
    /\ IdleExperiment
    /\ IdleTrial

DoDefault ==
    /\ obCalls < MaxDefaults
    /\ obObjective' = ObjectiveDefault(obObjective)
    /\ obFirst' = IF obCalls = 0 THEN <<ObjectiveDefault(obObjective)>> ELSE obFirst
    /\ obCalls' = obCalls + 1
    /\ UNCHANGED <<obBefore, obOthers>>

NextObjective == DoDefault

SpecObjective == InitObjective /\ [][NextObjective]_vars

\* C30: Default leaves a name, a latency type and every weight the objective
\* had as they were and takes no configuration away; it gives no Requests to
\* an objective that has a Latency only and no Latency to one that has
\* Requests only; a further call leaves the objective as the first call left
\* it.
C30_DefaultOnlyFills ==
    obCalls > 0 =>
        /\ obBefore.Name # <<>> => obObjective.Name = obBefore.Name
        /\ obBefore.Latency # Nil =>
              /\ obObjective.Latency # Nil
              /\ obBefore.Latency[1].LatencyType # <<>> =>
                    obObjective.Latency[1].LatencyType = obBefore.Latency[1].LatencyType
        /\ obBefore.Requests # Nil =>
              /\ obObjective.Requests # Nil
              /\ obBefore.Requests[1].Weights # Nil =>
                    /\ obObjective.Requests[1].Weights # Nil
                    /\ \A k \in DOMAIN obBefore.Requests[1].Weights[1] :
                          /\ k \in DOMAIN obObjective.Requests[1].Weights[1]
                          /\ obObjective.Requests[1].Weights[1][k] = obBefore.Requests[1].Weights[1][k]
        /\ (obBefore.Latency # Nil /\ obBefore.Requests = Nil) => obObjective.Requests = Nil
        /\ (obBefore.Requests # Nil /\ obBefore.Latency = Nil) => obObjective.Latency = Nil
        /\ obObjective = obFirst[1]

\* Default was called twice on the objective cost with a weight for the cpu
\* only: the weight of the memory was added, the weight of the cpu kept
C30_Witness ==
    /\ obCalls = 2
    /\ obBefore.Name = <<"c", "o", "s", "t">>
    /\ obBefore.Requests = <<[Weights |-> <<"cpu" :> 7>>]>>
    /\ obObjective.Requests = <<[Weights |-> <<Weights(7, 3)>>]>>

\* Default was called twice on an objective without a name that has Requests
\* without weights: it was named requests and given the weights 1 and 1
C30_WitnessNamed ==
    /\ obCalls = 2
    /\ obBefore.Name = <<>>
    /\ obBefore.Requests = <<[Weights |-> Nil]>>
    /\ obObjective.Name = <<"r", "e", "q", "u", "e", "s", "t", "s">>
    /\ obObjective.Requests = <<[Weights |-> <<Weights(1, 1)>>]>>

(***************************************************************************)
(* FromCluster: claims                                                     *)
(***************************************************************************)

\* a declared parameter that is degenerate: Min = Max and no enumerated values
Degenerate(p) == p.Min = p.Max /\ p.Values = <<>>

\* the declared parameters that are not degenerate, in declaration order
NonDegenerate(ps) == SelectSeq(ps, LAMBDA p : ~Degenerate(p))

HasBaseline(p) == p.Baseline # Nil

Succeeded == fcResult.called /\ fcResult.err = Nil
Failed == fcResult.called /\ fcResult.err # Nil /\ fcResult.out = Nil /\ fcResult.baseline = Nil

\* C2 (as claimed): FromCluster fails for every experiment in which one
\* declared parameter carries a baseline and another declared parameter
\* carries none; it returns a baseline assignment only when every declared
\* parameter has a baseline and no baseline assignment only when none has.
C2_PartialBaselineOfDeclared ==
    LET ps == fcExp.Parameters
    IN  fcResult.called =>
          /\ ((\E i \in DOMAIN ps : HasBaseline(ps[i])) /\ (\E i \in DOMAIN ps : ~HasBaseline(ps[i]))
                => Failed)
          /\ (Succeeded /\ fcResult.baseline # Nil => \A i \in DOMAIN ps : HasBaseline(ps[i]))
          /\ (Succeeded /\ fcResult.baseline = Nil => \A i \in DOMAIN ps : ~HasBaseline(ps[i]))

\* C2 (amended): the same, over the declared parameters that are sent, that
\* is the ones that are not degenerate: FromCluster fails when one of them
\* carries a baseline and another carries none, returns a baseline assignment
\* only when each of them has a baseline, and none only when none of them has.
C2_PartialBaselineOfSent ==
    LET ps == NonDegenerate(fcExp.Parameters)
    IN  fcResult.called =>
          /\ ((\E i \in DOMAIN ps : HasBaseline(ps[i])) /\ (\E i \in DOMAIN ps : ~HasBaseline(ps[i]))
                => Failed)
          /\ (Succeeded /\ fcResult.baseline # Nil => \A i \in DOMAIN ps : HasBaseline(ps[i]))
          /\ (Succeeded /\ fcResult.baseline = Nil => \A i \in DOMAIN ps : ~HasBaseline(ps[i]))

\* C2 witness: a baseline on one sent parameter and none on another was
\* refused with the all-or-none error.
C2_Witness ==
    LET ps == NonDegenerate(fcExp.Parameters)
    IN  /\ Failed
        /\ fcResult.err = ErrBaselinePartial
        /\ \E i \in DOMAIN ps : HasBaseline(ps[i])
        /\ \E i \in DOMAIN ps : ~HasBaseline(ps[i])

\* C7: the API experiment FromCluster produces holds exactly the declared
\* parameters that are not degenerate, in declaration order, each once: as a
\* categorical parameter with the declared values when it has values, as an
\* integer parameter whose bounds read Min and Max otherwise; a degenerate
\* parameter is not sent and has no entry in the baseline assignment.
C7_SentParameters ==
    LET ps == NonDegenerate(fcExp.Parameters)
    IN  Succeeded =>
          LET out == fcResult.out[1].Parameters
          IN  /\ Len(out) = Len(ps)
              /\ \A k \in DOMAIN ps :
                    /\ out[k].Name = ps[k].Name
                    /\ IF ps[k].Values # <<>>
                       THEN /\ out[k].Type = "categorical"
                            /\ out[k].Values = ps[k].Values
                            /\ out[k].Bounds = Nil
                       ELSE /\ out[k].Type = "int"
                            /\ out[k].Bounds # Nil
                            /\ ParseIntOk(out[k].Bounds[1].Min)
                            /\ ParseIntValue(out[k].Bounds[1].Min) = ps[k].Min
                            /\ ParseIntOk(out[k].Bounds[1].Max)
                            /\ ParseIntValue(out[k].Bounds[1].Max) = ps[k].Max
              /\ fcResult.baseline # Nil =>
                    LET as == fcResult.baseline[1].Assignments
                    IN  /\ Len(as) = Len(ps)
                        /\ \A k \in DOMAIN ps : as[k].ParameterName = ps[k].Name

\* C7 witness: a degenerate parameter that carries a baseline was left out,
\* next to a parameter that was sent with its baseline.
C7_Witness ==
    /\ Succeeded
    /\ fcResult.baseline # Nil
    /\ Len(fcResult.out[1].Parameters) = 1
    /\ \E i \in DOMAIN fcExp.Parameters :
          Degenerate(fcExp.Parameters[i]) /\ HasBaseline(fcExp.Parameters[i])
    /\ \E i \in DOMAIN fcExp.Parameters :
          ~Degenerate(fcExp.Parameters[i]) /\ fcExp.Parameters[i].Values = <<>>

\* a baseline assignment entry is valid for the parameter p: a member of the
\* declared values of a categorical parameter, a number within [Min, Max] of
\* an integer parameter
ValidBaselineEntry(a, p) ==
    IF p.Values # <<>>
    THEN a.Value.IsString /\ \E i \in DOMAIN p.Values : p.Values[i] = a.Value.StrVal
    ELSE /\ ~a.Value.IsString
         /\ \E v \in p.Min..p.Max : a.Value.NumVal = Int64FromInt32(v)

\* C8: whenever FromCluster succeeds, every entry of the baseline assignment
\* it returns is valid for its parameter: within [Min, Max] for an integer
\* parameter, a member of the declared values for a categorical parameter.
C8_BaselineEntriesValid ==
    LET ps == NonDegenerate(fcExp.Parameters)
    IN  Succeeded /\ fcResult.baseline # Nil =>
          LET as == fcResult.baseline[1].Assignments
          IN  \A k \in DOMAIN as : k \in DOMAIN ps /\ ValidBaselineEntry(as[k], ps[k])

(***************************************************************************)
(* CheckDefinition: specification and claims                               *)
(***************************************************************************)

NextDefinition == DoCheckDefinition

InitDefinition ==
    /\ cdExp \in Definitions
    /\ cdRemote \in Definitions
    /\ cdResult = "pending"
    /\ IdleExperiment
    /\ IdleTrial
    /\ IdleGeneration

SpecDefinition == InitDefinition /\ [][NextDefinition]_vars

\* C1: CheckDefinition returns nil exactly when the set of cluster parameter
\* names equals the set of API parameter names and the set of cluster metric
\* names equals the set of API metric names, for all pairs of name lists,
\* lists with a repeated name included: any difference between the two sets
\* of parameter names or of metric names yields an error.
C1_DifferenceYieldsError ==
    (cdResult # "pending" /\ cdResult = NoError) =>
        /\ Range(cdExp.Parameters) = Range(cdRemote.Parameters)
        /\ Range(cdExp.Metrics) = Range(cdRemote.Metrics)

====
